---- MODULE Spec2Model ----
(***************************************************************************)
(* Cart / checkout service of src/P3/api.py over its relational store.     *)
(* Every database statement issued through fetch_all is one atomic step;   *)
(* a request handler is a sequence of such steps (one per await).          *)
(* Money is modelled in hundredths, so that a whole percentage of a price  *)
(* is a whole amount.  A paid order is followed by the debit of the        *)
(* balance and the drain and re-creation of the cart (add_to_balance,      *)
(* empty_cart), which the checkout of src/P3/api.py leaves to the store.   *)
(* The file service of src/P1/file.py with its session and share tokens    *)
(* (src/user.py) and the ratings of src/P3/api.py are modelled next to it. *)
(***************************************************************************)
EXTENDS Integers, FiniteSets, Sequences, TLC

\* ------------------------------------------------------------------ bounds
MaxQuantity == 3      \* largest quantity argument of a cart request
MaxLineQty == 3       \* add requests are issued while the line stays <= this
MaxFaults == 1        \* database statements that may raise in one behaviour
MaxOrders == 2        \* checkouts are issued while Pedido has fewer rows

\* ------------------------------------------------------------ fixed data
UserIds == {"u1", "u2"}
Movies == {"m1", "m2"}
Tokens == {"t_u1", "bad"}          \* bearer tokens presented by requests
Reqs == {1, 2}                     \* request slots (tasks in flight)
None == -1                         \* Python None for numeric values
NoUser == "none"                   \* Python None for a user id

\* Peliculas.price of the catalog as loaded
InitPeliculas == [m \in Movies |-> IF m = "m1" THEN 200 ELSE 400]

InitBalances == {600, 2000}
InitDiscounts == {0, 50}

VARIABLES
    Usuario,            \* user_id -> [token, balance, discount, active, admin, name, password]
    Carrito,            \* set of [cart_id, user_id]
    Carrito_Pelicula,   \* set of [cart_id, movieid, quantity]
    Pedido,             \* sequence of [order_id, user_id, total, paid]
    Pedido_Pelicula,    \* set of [order_id, movieid, quantity]
    cart_seq,           \* last value of the Carrito.cart_id sequence
    req,                \* request slot -> the handler's locals and position
    faults,             \* statements that raised so far
    library,            \* owner id -> set of [name, visibility, content]: resources/files/<uid>.txt
    now,                \* the clock, in ticks
    share,              \* the first share token created, with its request
    seen,               \* the last request to the file service and its answer
    users,              \* resources/users.txt: set of [username, password, UID]
    minted,             \* every (uid, token) that create_user / login_user returned
    Calificacion,       \* set of [user_id, movieid, rating]
    votes,              \* movieid -> Peliculas.votes
    rate,               \* the rating request: rate_movie's locals and position
    Peliculas,          \* movieid -> Peliculas.price
    report              \* the last answer of get_order, delete_user, login_user

shop == <<Usuario, Carrito, Carrito_Pelicula, Pedido, Pedido_Pelicula, cart_seq,
          req, faults>>
files == <<library, now, share, seen, users, minted>>
ratings == <<Calificacion, votes, rate>>
backoffice == <<Peliculas, report>>
vars == <<shop, files, ratings, backoffice>>
tables == <<Usuario, Carrito, Carrito_Pelicula, Pedido, Pedido_Pelicula>>

\* ------------------------------------------------------------- helpers
\* SUM(p.price * cp.quantity) over a set of cart lines
RECURSIVE SumPriceQty(_)
SumPriceQty(L) ==
    IF L = {} THEN 0
    ELSE LET l == CHOOSE x \in L : TRUE
         IN Peliculas[l.movieid] * l.quantity + SumPriceQty(L \ {l})

\* The store as the handlers see it at one instant.
Snapshot == [Usuario |-> Usuario, Carrito |-> Carrito,
             Carrito_Pelicula |-> Carrito_Pelicula,
             Pedido |-> Pedido, Pedido_Pelicula |-> Pedido_Pelicula]

\* fetch_all's return value for INSERT / UPDATE / DELETE
fetch_all_mod(kind, rowcount, fault) ==
    IF fault THEN "None"
    ELSE IF rowcount > 0 THEN "True"
    ELSE IF kind \in {"DELETE", "INSERT"} THEN "True"
    ELSE "False"

\* ------------------------------------------------------------- queries
\* SELECT user_id FROM Usuario WHERE token = :token
UsersByToken(U, token) == {u \in DOMAIN U : U[u].token = token}

\* SELECT cart_id FROM Carrito WHERE user_id = :user_id
CartIdsOf(C, u) == {c.cart_id : c \in {x \in C : x.user_id = u}}

\* Carrito_Pelicula cp JOIN Carrito c ... WHERE c.user_id = :user_id
LinesOfUser(C, CP, u) == {l \in CP : l.cart_id \in CartIdsOf(C, u)}

\* ... AND cp.movieid = :movieid
LinesOf(C, CP, u, m) == {l \in LinesOfUser(C, CP, u) : l.movieid = m}

\* UPDATE Carrito_Pelicula SET quantity = quantity + :quantity ...
UpdateLines(C, CP, u, m, delta) ==
    {IF l \in LinesOf(C, CP, u, m) THEN [l EXCEPT !.quantity = @ + delta] ELSE l
        : l \in CP}

\* INSERT INTO Carrito_Pelicula ... SELECT c.cart_id, :movieid, :quantity
\* FROM Carrito c WHERE c.user_id = :user_id ON CONFLICT DO NOTHING
InsertLine(C, CP, u, m, q) ==
    CP \cup {[cart_id |-> c, movieid |-> m, quantity |-> q] :
                c \in {c \in CartIdsOf(C, u) :
                         ~\E l \in CP : l.cart_id = c /\ l.movieid = m}}

\* DELETE FROM Carrito_Pelicula cp USING Carrito c WHERE ... movieid = :movieid
DeleteLines(C, CP, u, m) == CP \ LinesOf(C, CP, u, m)

\* get_cart: the movie ids of the rows returned for the user's cart, the
\* row of `exclude` dropped from the result only
get_cart(C, CP, u, exclude) ==
    {l.movieid : l \in LinesOfUser(C, CP, u)} \ {exclude}

\* ------------------------------------------------------------- requests
NoSnapshot == [Usuario |-> <<>>, Carrito |-> {}, Carrito_Pelicula |-> {},
               Pedido |-> <<>>, Pedido_Pelicula |-> {}]

\* what is remembered of the request a slot served before the current one
NoPrev == [op |-> "none", token |-> "bad", movieid |-> "m1", quantity |-> 0,
           status |-> "none", line_before |-> None]

IdleReq == [op |-> "none", pc |-> "idle", token |-> "bad", movieid |-> "m1",
            quantity |-> 0, user_id |-> NoUser, existing |-> FALSE,
            line_quantity |-> None, total |-> None, current_balance |-> None,
            order_id |-> None, status |-> "none", ret |-> None,
            steps |-> <<>>, pre |-> NoSnapshot, line_before |-> None,
            prev |-> NoPrev]

\* no request is between its first and its last statement
Quiet == \A r \in Reqs : req[r].pc \in {"idle", "done"}

\* Requests are served one after the other (conc = FALSE) or a slot serves a
\* single request that may overlap the other slot's (conc = TRUE).
MayBegin(r, conc) == IF conc THEN req[r].pc = "idle" ELSE Quiet

\* quantity of the cart line of the token's user for movie m (0: no line)
LineQty(C, CP, u, m) ==
    IF LinesOf(C, CP, u, m) = {} THEN 0
    ELSE (CHOOSE l \in LinesOf(C, CP, u, m) : TRUE).quantity

TokenLineQty(token, m) ==
    IF UsersByToken(Usuario, token) = {} THEN None
    ELSE LineQty(Carrito, Carrito_Pelicula,
                 CHOOSE u \in UsersByToken(Usuario, token) : TRUE, m)

PrevOf(q) == IF q.op = "none" THEN NoPrev
             ELSE [op |-> q.op, token |-> q.token, movieid |-> q.movieid,
                   quantity |-> q.quantity, status |-> q.status,
                   line_before |-> q.line_before]

\* track: the slot remembers the request it served before (cart specification)
NewReq(r, op, token, m, q, pc, track) ==
    [IdleReq EXCEPT !.op = op, !.pc = pc, !.token = token, !.movieid = m,
                    !.quantity = q, !.pre = Snapshot,
                    !.line_before = TokenLineQty(token, m),
                    !.prev = IF track THEN PrevOf(req[r]) ELSE NoPrev]

\* a statement may raise while the fault budget lasts
FaultChoice(fa) == IF fa /\ faults < MaxFaults THEN BOOLEAN ELSE {FALSE}
CountFault(f) == faults' = IF f THEN faults + 1 ELSE faults

Goto(rec, pc, stepName) ==
    [rec EXCEPT !.pc = pc, !.steps = Append(@, stepName)]

Finish(rec, status, ret, stepName) ==
    [rec EXCEPT !.pc = "done", !.status = status, !.ret = ret,
                !.steps = Append(@, stepName)]

\* a cart or checkout statement leaves the files and the ratings alone
SetReq(r, rec) ==
    req' = [req EXCEPT ![r] = rec] /\ UNCHANGED <<files, ratings, backoffice>>

\* get_user_id: SELECT user_id FROM Usuario WHERE token = :token ; result[0]
get_user_id(token, f) ==
    IF f \/ UsersByToken(Usuario, token) = {} THEN {NoUser}
    ELSE UsersByToken(Usuario, token)

\* status returned for a fetch_all result of a modification
ModStatus(res) == IF res = "True" THEN "OK"
                  ELSE IF res = "False" THEN "NOT_FOUND" ELSE "ERROR"

\* ---------------------------------------------------- PUT /cart/<movieid>
\* http_add_to_cart: parse and validate quantity (<= 0 is rejected)
http_add_to_cart(r, conc, track, Qs) ==
    /\ MayBegin(r, conc)
    /\ \E token \in Tokens, m \in Movies, q \in Qs :
          /\ TokenLineQty(token, m) + q <= MaxLineQty
          /\ SetReq(r, IF q <= 0
                       THEN Finish(NewReq(r, "add", token, m, q, "done", track),
                                   "BAD_REQUEST", None, "validate")
                       ELSE NewReq(r, "add", token, m, q, "add_user", track))
    /\ UNCHANGED <<tables, cart_seq, faults>>

\* http_add_to_cart: user_id = await get_user_id(token)
add_to_cart_user(r, fa) ==
    /\ req[r].pc = "add_user"
    /\ \E f \in FaultChoice(fa) : \E u \in get_user_id(req[r].token, f) :
          /\ CountFault(f)
          /\ SetReq(r, IF u = NoUser
                       THEN Finish(req[r], "USER_NOT_FOUND", None, "resolve_user")
                       ELSE Goto([req[r] EXCEPT !.user_id = u], "add_check",
                                 "resolve_user"))
    /\ UNCHANGED <<tables, cart_seq>>

\* add_to_cart: existing = SELECT 1 FROM Carrito_Pelicula JOIN Carrito ...
add_to_cart_check(r, fa) ==
    /\ req[r].pc = "add_check"
    /\ \E f \in FaultChoice(fa) :
          /\ CountFault(f)
          /\ SetReq(r, Goto([req[r] EXCEPT !.existing =
                               ~f /\ LinesOf(Carrito, Carrito_Pelicula,
                                             req[r].user_id, req[r].movieid) # {}],
                            "add_write", "check_line"))
    /\ UNCHANGED <<tables, cart_seq>>

\* mutant: the existence check is ignored, the line is always inserted
add_to_cart_stmt_insert(existing) == "INSERT"

\* add_to_cart: the statement chosen by `if existing`
add_to_cart_stmt(existing) == IF existing THEN "UPDATE" ELSE "INSERT"

\* add_to_cart: UPDATE quantity = quantity + :quantity, or INSERT the line
add_to_cart_write(r, fa) ==
    /\ req[r].pc = "add_write"
    /\ \E f \in FaultChoice(fa) :
       LET u == req[r].user_id
           m == req[r].movieid
           q == req[r].quantity
           kind == add_to_cart_stmt(req[r].existing)
           newCP == IF kind = "UPDATE"
                    THEN UpdateLines(Carrito, Carrito_Pelicula, u, m, q)
                    ELSE InsertLine(Carrito, Carrito_Pelicula, u, m, q)
           rows == IF kind = "UPDATE"
                   THEN Cardinality(LinesOf(Carrito, Carrito_Pelicula, u, m))
                   ELSE Cardinality(newCP \ Carrito_Pelicula)
       IN /\ CountFault(f)
          /\ Carrito_Pelicula' = IF f THEN Carrito_Pelicula ELSE newCP
          /\ SetReq(r, Finish(req[r], ModStatus(fetch_all_mod(kind, rows, f)),
                              None, "write_line"))
    /\ UNCHANGED <<Usuario, Carrito, Pedido, Pedido_Pelicula, cart_seq>>

\* ------------------------------------------------- DELETE /cart/<movieid>
\* http_delete_from_cart: parse and validate quantity (<= 0 is rejected)
http_delete_from_cart(r, conc, track, Qs) ==
    /\ MayBegin(r, conc)
    /\ \E token \in Tokens, m \in Movies, q \in Qs :
          SetReq(r, IF q <= 0
                    THEN Finish(NewReq(r, "delete", token, m, q, "done", track),
                                "BAD_REQUEST", None, "validate")
                    ELSE NewReq(r, "delete", token, m, q, "del_user", track))
    /\ UNCHANGED <<tables, cart_seq, faults>>

\* find_movie_in_cart: user_id = await get_user_id(token)
find_movie_in_cart_user(r, fa) ==
    /\ req[r].pc = "del_user"
    /\ \E f \in FaultChoice(fa) : \E u \in get_user_id(req[r].token, f) :
          /\ CountFault(f)
          /\ SetReq(r, IF u = NoUser
                       THEN Finish(req[r], "USER_NOT_FOUND", None, "resolve_user")
                       ELSE Goto([req[r] EXCEPT !.user_id = u], "del_find",
                                 "resolve_user"))
    /\ UNCHANGED <<tables, cart_seq>>

\* mutant: the final else is missing, any other quantity decrements
delete_from_cart_branch_no_else(q, n) ==
    IF q - n = 0 THEN "DELETE" ELSE "UPDATE"

\* mutant: removing the whole quantity decrements instead of deleting
delete_from_cart_branch_no_delete(q, n) ==
    IF q <= n THEN "UPDATE" ELSE "TOO_MANY_MOVIES"

\* delete_from_cart: which branch the requested quantity q selects against
\* the quantity n read from the line
delete_from_cart_branch(q, n) ==
    IF q - n = 0 THEN "DELETE"
    ELSE IF q < n THEN "UPDATE"
    ELSE "TOO_MANY_MOVIES"

\* find_movie_in_cart: SELECT * FROM Carrito_Pelicula JOIN Carrito ... ; data[0]
\* followed by delete_from_cart's comparison of quantities
find_movie_in_cart(r, fa) ==
    /\ req[r].pc = "del_find"
    /\ \E f \in FaultChoice(fa) :
       LET L == LinesOf(Carrito, Carrito_Pelicula, req[r].user_id, req[r].movieid)
       IN /\ CountFault(f)
          /\ IF f THEN SetReq(r, Finish(req[r], "ERROR", None, "find_line"))
             ELSE IF L = {}
             THEN SetReq(r, Finish(req[r], "MOVIE_NOT_FOUND", None, "find_line"))
             ELSE \E l \in L :
                    SetReq(r,
                      IF delete_from_cart_branch(req[r].quantity, l.quantity)
                            = "TOO_MANY_MOVIES"
                      THEN Finish([req[r] EXCEPT !.line_quantity = l.quantity],
                                  "TOO_MANY_MOVIES", None, "find_line")
                      ELSE Goto([req[r] EXCEPT !.line_quantity = l.quantity],
                                "del_write", "find_line"))
    /\ UNCHANGED <<tables, cart_seq>>

\* delete_from_cart: DELETE the line, or UPDATE quantity = quantity - :quantity
delete_from_cart_write(r, fa) ==
    /\ req[r].pc = "del_write"
    /\ \E f \in FaultChoice(fa) :
       LET u == req[r].user_id
           m == req[r].movieid
           q == req[r].quantity
           kind == delete_from_cart_branch(q, req[r].line_quantity)
           rows == Cardinality(LinesOf(Carrito, Carrito_Pelicula, u, m))
           newCP == IF kind = "DELETE"
                    THEN DeleteLines(Carrito, Carrito_Pelicula, u, m)
                    ELSE UpdateLines(Carrito, Carrito_Pelicula, u, m, 0 - q)
       IN /\ CountFault(f)
          /\ Carrito_Pelicula' = IF f THEN Carrito_Pelicula ELSE newCP
          /\ SetReq(r, Finish(req[r], ModStatus(fetch_all_mod(kind, rows, f)),
                              None, "write_line"))
    /\ UNCHANGED <<Usuario, Carrito, Pedido, Pedido_Pelicula, cart_seq>>

\* ---------------------------------------------------- POST /cart/checkout
\* http_checkout: orderid, result = await checkout(token)
http_checkout(r, conc, track) ==
    /\ MayBegin(r, conc)
    /\ Len(Pedido) < MaxOrders
    /\ \E token \in Tokens :
          SetReq(r, NewReq(r, "checkout", token, "m1", 0, "co_user", track))
    /\ UNCHANGED <<tables, cart_seq, faults>>

\* mutant: the line-copy failure reports the order-creation status
checkout_failure_swapped(step) ==
    CASE step = "resolve_user" -> "USER_NOT_FOUND"
      [] step = "compute_total" -> "PRICE_NOT_FOUND"
      [] step = "read_balance" -> "BALANCE_NOT_FOUND"
      [] step = "check_sufficiency" -> "INSUFFICIENT_BALANCE"
      [] step = "create_order" -> "CREATE_ORDER_FAILED"
      [] step = "copy_lines" -> "CREATE_ORDER_FAILED"
      [] step = "mark_paid" -> "UPDATE_PAID_FAILED"
      [] OTHER -> "ORDER_ID_NOT_FOUND"

\* checkout: the status returned when a step fails
checkout_failure(step) ==
    CASE step = "resolve_user" -> "USER_NOT_FOUND"
      [] step = "compute_total" -> "PRICE_NOT_FOUND"
      [] step = "read_balance" -> "BALANCE_NOT_FOUND"
      [] step = "check_sufficiency" -> "INSUFFICIENT_BALANCE"
      [] step = "create_order" -> "CREATE_ORDER_FAILED"
      [] step = "copy_lines" -> "ADD_MOVIES_TO_ORDER_FAILED"
      [] step = "mark_paid" -> "UPDATE_PAID_FAILED"
      [] OTHER -> "ORDER_ID_NOT_FOUND"

\* a checkout step fails: return None, <status>
Fail(rec, step) == Finish(rec, checkout_failure(step), None, step)

\* checkout: user_id = await get_user_id(token)
checkout_user(r, fa) ==
    /\ req[r].pc = "co_user"
    /\ \E f \in FaultChoice(fa) : \E u \in get_user_id(req[r].token, f) :
          /\ CountFault(f)
          /\ SetReq(r, IF u = NoUser
                       THEN Fail(req[r], "resolve_user")
                       ELSE Goto([req[r] EXCEPT !.user_id = u], "co_sum",
                                 "resolve_user"))
    /\ UNCHANGED <<tables, cart_seq>>

\* the one row of SELECT SUM(p.price * cp.quantity): NULL over no lines
SqlSum(L) == IF L = {} THEN None ELSE SumPriceQty(L)

\* mutant: the NULL of a cart without lines is passed on as it is
total_or_zero_missing(total) == total

\* get_cart_total: if total is None: return 0.0
total_or_zero(total) == IF total = None THEN 0 ELSE total

\* get_cart_total: SELECT SUM(p.price * cp.quantity) ... WHERE c.user_id = :user_id
\* (one row always; NULL for a cart without lines gives 0.0 at once)
get_cart_total_sum(r, fa) ==
    /\ req[r].pc = "co_sum"
    /\ \E f \in FaultChoice(fa) :
       LET t == SqlSum(LinesOfUser(Carrito, Carrito_Pelicula, req[r].user_id))
       IN /\ CountFault(f)
          /\ SetReq(r, IF f
                       THEN Fail(req[r], "compute_total")
                       ELSE IF t = None
                       THEN Goto([req[r] EXCEPT !.total = total_or_zero(t)],
                                 "co_balance", "compute_total")
                       ELSE Goto([req[r] EXCEPT !.total = t],
                                 "co_discount", "compute_total"))
    /\ UNCHANGED <<tables, cart_seq>>

\* mutant: a discount of 100 is out of the accepted range
apply_discount_below_100(total, discount) ==
    IF discount > 0 /\ discount < 100
    THEN (total * (100 - discount)) \div 100
    ELSE total

\* get_cart_total: total * (1 - discount / 100) when 0 < discount <= 100
apply_discount(total, discount) ==
    IF discount > 0 /\ discount <= 100
    THEN (total * (100 - discount)) \div 100
    ELSE total

\* get_cart_total on a store no other request writes to
get_cart_total(C, CP, U, u) ==
    LET t == SqlSum(LinesOfUser(C, CP, u))
    IN IF t = None THEN total_or_zero(t) ELSE apply_discount(t, U[u].discount)

\* get_cart_total: SELECT discount FROM Usuario WHERE user_id LIKE :target_uid
\* (an error or a missing row leaves the total without discount)
get_cart_total_discount(r, fa) ==
    /\ req[r].pc = "co_discount"
    /\ \E f \in FaultChoice(fa) :
          /\ CountFault(f)
          /\ SetReq(r, [req[r] EXCEPT
                  !.pc = "co_balance",
                  !.total = IF f \/ req[r].user_id \notin DOMAIN Usuario THEN @
                            ELSE apply_discount(@, Usuario[req[r].user_id].discount)])
    /\ UNCHANGED <<tables, cart_seq>>

\* mutant: the operands of the sufficiency check swapped
insufficient_balance_reversed(current_balance, total) == (total - current_balance) < 0

\* checkout: if (current_balance - total) < 0: INSUFFICIENT_BALANCE
insufficient_balance(current_balance, total) == (current_balance - total) < 0

\* get_balance: SELECT balance FROM Usuario WHERE user_id = :user_id, then the
\* sufficiency check of checkout
get_balance(r, fa) ==
    /\ req[r].pc = "co_balance"
    /\ \E f \in FaultChoice(fa) :
       LET u == req[r].user_id
       IN /\ CountFault(f)
          /\ SetReq(r,
               IF f \/ u \notin DOMAIN Usuario
               THEN Fail(req[r], "read_balance")
               ELSE LET rec == Goto([req[r] EXCEPT !.current_balance = Usuario[u].balance],
                                    "co_cart", "read_balance")
                    IN IF insufficient_balance(Usuario[u].balance, req[r].total)
                       THEN Fail(rec, "check_sufficiency")
                       ELSE Goto(rec, "co_cart", "check_sufficiency"))
    /\ UNCHANGED <<tables, cart_seq>>

\* create_order: SELECT cart_id FROM Carrito WHERE user_id = :user_id ; result[0]
create_order_cart(r, fa) ==
    /\ req[r].pc = "co_cart"
    /\ \E f \in FaultChoice(fa) :
       LET ids == CartIdsOf(Carrito, req[r].user_id)
       IN /\ CountFault(f)
          /\ IF f \/ ids = {}
             THEN SetReq(r, Fail(req[r], "create_order"))
             ELSE \E c \in ids :
                    SetReq(r, IF c = 0
                              THEN Fail(req[r], "create_order")
                              ELSE Goto([req[r] EXCEPT !.order_id = c], "co_order",
                                        "create_order"))
    /\ UNCHANGED <<tables, cart_seq>>

\* Pedido.order_id identifies the order: a second row with the same
\* identifier is refused by the store
PedidoKeyTaken(P, order_id) == \E i \in 1..Len(P) : P[i].order_id = order_id

\* create_order: INSERT INTO Pedido (order_id, user_id, total, date)
\* VALUES (:cart_id, :user_id, :total, NOW())
create_order(r, fa) ==
    /\ req[r].pc = "co_order"
    /\ \E f \in FaultChoice(fa) :
       LET raised == f \/ PedidoKeyTaken(Pedido, req[r].order_id)
       IN /\ CountFault(f)
          /\ Pedido' = IF raised THEN Pedido
                       ELSE Append(Pedido, [order_id |-> req[r].order_id,
                                            user_id |-> req[r].user_id,
                                            total |-> req[r].total,
                                            paid |-> FALSE])
          /\ SetReq(r, IF raised
                       THEN [req[r] EXCEPT !.pc = "done",
                                           !.status = checkout_failure("create_order"),
                                           !.order_id = None]
                       ELSE [req[r] EXCEPT !.pc = "co_movies"])
    /\ UNCHANGED <<Usuario, Carrito, Carrito_Pelicula, Pedido_Pelicula, cart_seq>>

\* mutant: the WHERE cart_id clause is missing, every cart's lines are copied
CopyLines_all(CP, order_id) ==
    {[order_id |-> order_id, movieid |-> l.movieid, quantity |-> l.quantity] :
        l \in CP}

\* INSERT INTO Pedido_Pelicula (order_id, movieid, quantity)
\* SELECT :order_id, movieid, quantity FROM Carrito_Pelicula WHERE cart_id = :cart_id
CopyLines(CP, order_id) ==
    {[order_id |-> order_id, movieid |-> l.movieid, quantity |-> l.quantity] :
        l \in {x \in CP : x.cart_id = order_id}}

\* add_movies_to_order(order_id), with cart_id = order_id
add_movies_to_order(r, fa) ==
    /\ req[r].pc = "co_movies"
    /\ \E f \in FaultChoice(fa) :
       LET new == CopyLines(Carrito_Pelicula, req[r].order_id)
           raised == f
       IN /\ CountFault(f)
          /\ Pedido_Pelicula' = IF raised THEN Pedido_Pelicula
                                ELSE Pedido_Pelicula \cup new
          /\ SetReq(r, IF raised
                       THEN Fail(req[r], "copy_lines")
                       ELSE Goto(req[r], "co_paid", "copy_lines"))
    /\ UNCHANGED <<Usuario, Carrito, Carrito_Pelicula, Pedido, cart_seq>>

\* where a checkout continues once the order is marked paid
pc_after_paid == "co_debit"

\* checkout: UPDATE Pedido SET paid = TRUE WHERE order_id = :order_id
\* (only an error, not an update of no row, ends in UPDATE_PAID_FAILED)
checkout_paid(r, fa) ==
    /\ req[r].pc = "co_paid"
    /\ \E f \in FaultChoice(fa) :
          /\ CountFault(f)
          /\ Pedido' = IF f THEN Pedido
                       ELSE [i \in 1..Len(Pedido) |->
                               IF Pedido[i].order_id = req[r].order_id
                               THEN [Pedido[i] EXCEPT !.paid = TRUE]
                               ELSE Pedido[i]]
          /\ SetReq(r, IF f
                       THEN Fail(req[r], "mark_paid")
                       ELSE Goto(req[r], pc_after_paid, "mark_paid"))
    /\ UNCHANGED <<Usuario, Carrito, Carrito_Pelicula, Pedido_Pelicula, cart_seq>>

\* mutant: the amount is taken off the balance, whatever its sign
add_to_balance_minus(U, u, amount) ==
    [x \in DOMAIN U |-> IF x = u THEN [U[x] EXCEPT !.balance = @ - amount] ELSE U[x]]

\* add_to_balance: UPDATE Usuario SET balance = balance + :amount
\* WHERE user_id = :user_id
add_to_balance(U, u, amount) ==
    [x \in DOMAIN U |-> IF x = u THEN [U[x] EXCEPT !.balance = @ + amount] ELSE U[x]]

\* the debit of the purchase: add_to_balance(user_id, -total)
checkout_add_to_balance(r) ==
    /\ req[r].pc = "co_debit"
    /\ Usuario' = add_to_balance(Usuario, req[r].user_id, 0 - req[r].total)
    /\ SetReq(r, Goto(req[r], "co_drain_lines", "debit_balance"))
    /\ UNCHANGED <<Carrito, Carrito_Pelicula, Pedido, Pedido_Pelicula, cart_seq, faults>>

\* empty_cart: DELETE FROM Carrito_Pelicula cp USING Carrito c
\* WHERE cp.cart_id = c.cart_id AND c.user_id = :user_id
\* (if result is not True: return False)
empty_cart_lines(r, fa) ==
    /\ req[r].pc = "co_drain_lines"
    /\ \E f \in FaultChoice(fa) :
          /\ CountFault(f)
          /\ Carrito_Pelicula' =
                IF f THEN Carrito_Pelicula
                ELSE Carrito_Pelicula
                       \ LinesOfUser(Carrito, Carrito_Pelicula, req[r].user_id)
          /\ SetReq(r, IF f THEN Goto(req[r], "co_ret", "drain_cart")
                       ELSE [req[r] EXCEPT !.pc = "co_drain_cart"])
    /\ UNCHANGED <<Usuario, Carrito, Pedido, Pedido_Pelicula, cart_seq>>

\* what the store does with the cart lines that still reference a deleted
\* cart row: it refuses the DELETE, or it removes them with the row
CarritoDeleteOutcomes == {"refuse", "cascade"}

\* empty_cart: DELETE FROM Carrito c WHERE c.user_id = :user_id
\* (a refused DELETE raises: fetch_all gives None and empty_cart returns False)
empty_cart_delete(r, fa) ==
    /\ req[r].pc = "co_drain_cart"
    /\ \E f \in FaultChoice(fa) :
       LET u == req[r].user_id
           L == LinesOfUser(Carrito, Carrito_Pelicula, u)
       IN /\ CountFault(f)
          /\ \E outcome \in IF f THEN {"refuse"}
                           ELSE IF L = {} THEN {"cascade"}
                           ELSE CarritoDeleteOutcomes :
                IF outcome = "refuse"
                THEN /\ UNCHANGED <<Carrito, Carrito_Pelicula>>
                     /\ SetReq(r, Goto(req[r], "co_ret", "drain_cart"))
                ELSE /\ Carrito' = {c \in Carrito : c.user_id # u}
                     /\ Carrito_Pelicula' = Carrito_Pelicula \ L
                     /\ SetReq(r, [req[r] EXCEPT !.pc = "co_drain_new"])
    /\ UNCHANGED <<Usuario, Pedido, Pedido_Pelicula, cart_seq>>

\* mutant: the new cart takes the id of the cart just deleted
empty_cart_insert_same_id(r, fa) ==
    /\ req[r].pc = "co_drain_new"
    /\ \E f \in FaultChoice(fa) :
          /\ CountFault(f)
          /\ cart_seq' = cart_seq
          /\ Carrito' = IF f THEN Carrito
                        ELSE Carrito \cup {[cart_id |-> req[r].order_id,
                                            user_id |-> req[r].user_id]}
          /\ SetReq(r, Goto(req[r], "co_ret", "drain_cart"))
    /\ UNCHANGED <<Usuario, Carrito_Pelicula, Pedido, Pedido_Pelicula>>

\* empty_cart: INSERT INTO Carrito (user_id) VALUES (:user_id)
\* (cart_id is drawn from the table's sequence, also by an INSERT that fails)
empty_cart_insert(r, fa) ==
    /\ req[r].pc = "co_drain_new"
    /\ \E f \in FaultChoice(fa) :
          /\ CountFault(f)
          /\ cart_seq' = cart_seq + 1
          /\ Carrito' = IF f THEN Carrito
                        ELSE Carrito \cup {[cart_id |-> cart_seq + 1,
                                            user_id |-> req[r].user_id]}
          /\ SetReq(r, Goto(req[r], "co_ret", "drain_cart"))
    /\ UNCHANGED <<Usuario, Carrito_Pelicula, Pedido, Pedido_Pelicula>>

\* the follow-ups of a paid order: the balance debit and the drain and
\* re-creation of the cart, run between the paid flag and the final SELECT;
\* a drain that fails does not fail the checkout
checkout_followups(r, fa) ==
    \/ checkout_add_to_balance(r)
    \/ empty_cart_lines(r, fa)
    \/ empty_cart_delete(r, fa)
    \/ empty_cart_insert(r, fa)

\* checkout: the rows of SELECT order_id FROM Pedido WHERE user_id = :user_id
\* (no ORDER BY: any of them may come first)
OrdersOfUser(P, u) == {P[i].order_id : i \in {j \in 1..Len(P) : P[j].user_id = u}}

\* checkout: return result[0]["order_id"], "OK"
checkout_return(r, fa) ==
    /\ req[r].pc = "co_ret"
    /\ \E f \in FaultChoice(fa) :
       LET ids == OrdersOfUser(Pedido, req[r].user_id)
       IN /\ CountFault(f)
          /\ IF f \/ ids = {}
             THEN SetReq(r, Fail(req[r], "return"))
             ELSE \E o \in ids : SetReq(r, Finish(req[r], "OK", o, "return"))
    /\ UNCHANGED <<tables, cart_seq>>

\* ============================================================ file service
\* File library and share tokens of src/P1/file.py, session tokens of
\* src/user.py.  A string is a sequence of symbols: a symbol is one character,
\* or the 36 characters of a UUID's text (which hold no "." and no blank),
\* kept as one symbol that carries the namespace and the name it was hashed
\* from (uuid5 taken as collision free).
Ch(c) == [ch |-> c, ns |-> "", name |-> <<>>]
Dot == Ch(".")
Blank == Ch(" ")

Secret_uuid == "00010203-0405-0607-0809-0a0b0c0d0e0f"

\* uuid.uuid5(namespace, name)
uuid5(ns, name) == [ch |-> "uuid", ns |-> ns, name |-> name]

\* str(u) of a UUID u
str_uuid(u) == <<u>>

\* str.strip(): the string without its leading and trailing blanks
RECURSIVE strip(_)
strip(s) ==
    IF s = <<>> THEN s
    ELSE IF Head(s) = Blank THEN strip(Tail(s))
    ELSE IF s[Len(s)] = Blank THEN strip(SubSeq(s, 1, Len(s) - 1))
    ELSE s

\* uuid.UUID(text) raises unless the text is that of a UUID
uuid_parses(s) == Len(s) = 1 /\ s[1].ch = "uuid"
UUID(s) == s[1]

Digits == <<"0", "1", "2", "3", "4", "5", "6", "7", "8", "9">>

\* str(n) of an int n >= 0
RECURSIVE str_int(_)
str_int(n) ==
    IF n < 10 THEN <<Ch(Digits[n + 1])>>
    ELSE str_int(n \div 10) \o <<Ch(Digits[(n % 10) + 1])>>

IsDigit(c) == \E d \in 1..10 : Digits[d] = c.ch
DigitValue(c) == (CHOOSE d \in 1..10 : Digits[d] = c.ch) - 1

\* int(text) raises unless the text, blanks around it aside, is a numeral
int_parses(s) ==
    /\ strip(s) # <<>>
    /\ \A i \in 1..Len(strip(s)) : IsDigit(strip(s)[i])

RECURSIVE int_digits(_)
int_digits(s) ==
    IF s = <<>> THEN 0
    ELSE 10 * int_digits(SubSeq(s, 1, Len(s) - 1)) + DigitValue(s[Len(s)])

int(s) == int_digits(strip(s))

\* the places of "." in a string; str.count(".")
DotsOf(s) == {i \in 1..Len(s) : s[i] = Dot}
count_dots(s) == Cardinality(DotsOf(s))

MaxOf(S) == CHOOSE x \in S : \A y \in S : y <= x
MinOf(S) == CHOOSE x \in S : \A y \in S : x <= y

\* the clock runs in ticks; int(datetime.timestamp()) keeps the whole seconds
TicksPerSecond == 2
SecondsPerMinute == 60
TicksPerMinute == SecondsPerMinute * TicksPerSecond
timestamp(t) == t \div TicksPerSecond

MaxMinutes == 1       \* largest validity asked for a share token
MaxLag == 3           \* ticks observed after each whole minute
MaxFiles == 2         \* files kept in all the libraries together

\* the instants at which the clock is read
Instants == {t \in 0..(MaxMinutes * TicksPerMinute + MaxLag) :
                t % TicksPerMinute <= MaxLag}

Owners == {<<Ch("a")>>, <<Ch("b")>>}
FileNames == {<<Ch("f")>>, <<Ch("f"), Dot, Ch("f")>>}
Visibilities == {"private", "public"}
Usernames == {"alice", "bob"}
Passwords == {"pw", "no"}
Content0 == "c"                         \* the content files are created with
Contents == {Content0, "d"}

\* the session token of a user id, as login_user / create_user return it
session_token(uid) == str_uuid(uuid5(Secret_uuid, uid))

\* uuid.UUID(token) != uuid.uuid5(Secret_uuid, uid) of create_file,
\* remove_file and _create_share_token: "raise", "other" or "owner"
\* mutant: every well-formed UUID passes for the owner's token
check_login_token_any_uuid(uid, token) ==
    IF ~uuid_parses(token) THEN "raise" ELSE "owner"

check_login_token(uid, token) ==
    IF ~uuid_parses(token) THEN "raise"
    ELSE IF UUID(token) # uuid5(Secret_uuid, uid) THEN "other"
    ELSE "owner"

\* df['name'].values of _open_library(uid)
NamesOf(lib, uid) == {f.name : f \in lib[uid]}

\* f"{uid}.{filename}.{exp_ts}"
signed_text(uid, filename, exp_ts) ==
    uid \o <<Dot>> \o filename \o <<Dot>> \o str_int(exp_ts)

\* f"{uid}.{filename}.{exp_ts}.{signature}"
token_text(uid, filename, exp_text, sig_text) ==
    uid \o <<Dot>> \o filename \o <<Dot>> \o exp_text \o <<Dot>> \o sig_text

\* exp_ts = int((now + timedelta(minutes)).timestamp())
expiry_of(t, minutes) == timestamp(t + minutes * TicksPerMinute)

\* _create_share_token: None for a login token that is not the owner's or a
\* file that is not in the library, else the token; raises on a login token
\* that is no UUID
\* mutant: the file's existence is not looked at
_create_share_token_any_file(minutes, uid, login_token, filename, lib, t) ==
    LET auth == check_login_token(uid, login_token)
        exp_ts == expiry_of(t, minutes)
        signature == uuid5(Secret_uuid, signed_text(uid, filename, exp_ts))
    IN  IF auth = "raise" THEN [status |-> "raise", token |-> <<>>]
        ELSE IF auth = "other" THEN [status |-> "none", token |-> <<>>]
        ELSE [status |-> "ok",
              token |-> token_text(uid, filename, str_int(exp_ts),
                                   str_uuid(signature))]

_create_share_token(minutes, uid, login_token, filename, lib, t) ==
    LET auth == check_login_token(uid, login_token)
        exp_ts == expiry_of(t, minutes)
        signature == uuid5(Secret_uuid, signed_text(uid, filename, exp_ts))
    IN  IF auth = "raise" THEN [status |-> "raise", token |-> <<>>]
        ELSE IF auth = "other" THEN [status |-> "none", token |-> <<>>]
        ELSE IF filename \notin NamesOf(lib, uid)
             THEN [status |-> "none", token |-> <<>>]
        ELSE [status |-> "ok",
              token |-> token_text(uid, filename, str_int(exp_ts),
                                   str_uuid(signature))]

\* _check_share_token: if now_ts > exp_ts: return False
\* mutant: a token lives one second longer
is_expired_late(now_ts, exp_ts) == now_ts > exp_ts + 1

is_expired(now_ts, exp_ts) == now_ts > exp_ts

\* _check_share_token: the library still holds the file
\* mutant: the library is not looked at
file_missing_never(lib, uid_tk, filename_tk) == FALSE

file_missing(lib, uid_tk, filename_tk) ==
    uid_tk \notin DOMAIN lib \/ filename_tk \notin NamesOf(lib, uid_tk)

\* _check_share_token: filename_tk, exp_str, sig_str = rest.rsplit(".", 2)
\* mutant: the file name ends at the first "." of the rest
rsplit2_first(rest) ==
    LET D == DotsOf(rest)
        j1 == MinOf(D)
        j2 == MaxOf(D)
    IN  [filename_tk |-> SubSeq(rest, 1, j1 - 1),
         exp_str     |-> SubSeq(rest, j1 + 1, j2 - 1),
         sig_str     |-> SubSeq(rest, j2 + 1, Len(rest))]

rsplit2(rest) ==
    LET D == DotsOf(rest)
        j2 == MaxOf(D)
        j1 == MaxOf(D \ {j2})
    IN  [filename_tk |-> SubSeq(rest, 1, j1 - 1),
         exp_str     |-> SubSeq(rest, j1 + 1, j2 - 1),
         sig_str     |-> SubSeq(rest, j2 + 1, Len(rest))]

_check_share_token(file_name, share_token0, user, lib, t) ==
    LET share_token == strip(share_token0)
        D == DotsOf(share_token)
    IN  IF D = {} \/ MinOf(D) = 1 THEN FALSE
        ELSE
        LET first_dot == MinOf(D)
            uid_tk == SubSeq(share_token, 1, first_dot - 1)
            rest == SubSeq(share_token, first_dot + 1, Len(share_token))
        IN  IF count_dots(rest) < 2 THEN FALSE
            ELSE
            LET parts == rsplit2(rest)
            IN  IF ~int_parses(parts.exp_str) THEN FALSE
                ELSE IF uid_tk # user \/ parts.filename_tk # file_name THEN FALSE
                ELSE IF file_missing(lib, uid_tk, parts.filename_tk) THEN FALSE
                ELSE IF is_expired(timestamp(t), int(parts.exp_str)) THEN FALSE
                ELSE IF ~uuid_parses(strip(parts.sig_str)) THEN FALSE
                ELSE uuid5(Secret_uuid,
                           signed_text(uid_tk, parts.filename_tk, int(parts.exp_str)))
                        = UUID(strip(parts.sig_str))

\* read_file: the content is returned (TRUE) or None (FALSE); a request
\* without a bearer token is the empty token
\* mutant: any session token opens a private file
read_file_any_session(uid, filename, token0, lib, t) ==
    LET file_row == {f \in lib[uid] : f.name = filename}
    IN  IF file_row = {} THEN FALSE
        ELSE IF \E f \in file_row : f.visibility = "public" THEN TRUE
        ELSE LET token == strip(token0)
             IN  \/ count_dots(token) >= 3
                    /\ _check_share_token(filename, token, uid, lib, t)
                 \/ /\ count_dots(token) < 3
                    /\ check_login_token(uid, token) # "raise"

read_file(uid, filename, token0, lib, t) ==
    LET file_row == {f \in lib[uid] : f.name = filename}
    IN  IF file_row = {} THEN FALSE
        ELSE IF \E f \in file_row : f.visibility = "public" THEN TRUE
        ELSE LET token == strip(token0)
             IN  \/ count_dots(token) >= 3
                    /\ _check_share_token(filename, token, uid, lib, t)
                 \/ /\ count_dots(token) < 3
                    /\ check_login_token(uid, token) = "owner"

NoShare == [status |-> "none", uid |-> <<>>, filename |-> <<>>, minutes |-> 0,
            at |-> 0, token |-> <<>>, expired |-> FALSE]
NoSeen == [op |-> "none", uid |-> <<>>, filename |-> <<>>, token |-> <<>>,
           minutes |-> 0, status |-> "none", result |-> <<>>,
           before |-> [u \in Owners |-> {}], http |-> "none"]

\* the HTTP status of the handlers: an exception is a 500; http_create_file
\* answers 200 whenever create_file returns; http_modify_file,
\* http_remove_file answer 403 for False, http_read_file and
\* http_create_share_token for None
http_status(op, status) ==
    IF status = "raise" THEN "500"
    ELSE IF op = "create_file" THEN "200"
    ELSE IF status \in {"other", "false", "none"} THEN "403"
    ELSE "200"

\* a request to the file service with its answer and the library it found
Seen(op, uid, filename, token, minutes, status, result) ==
    [op |-> op, uid |-> uid, filename |-> filename, token |-> token,
     minutes |-> minutes, status |-> status, result |-> result,
     before |-> library, http |-> http_status(op, status)]

\* a request to the file service leaves the shop's store alone
Answer(sn) == seen' = sn /\ UNCHANGED <<shop, ratings, backoffice>>

FileCount(lib) ==
    Cardinality(UNION {{<<u, f.name>> : f \in lib[u]} : u \in DOMAIN lib})

\* bearer tokens presented as login tokens: the session tokens and a text
\* that is no UUID
LoginTokens == {session_token(u) : u \in Owners} \cup {<<Ch("x")>>}

\* create_file: returns without writing unless the token is the owner's
create_file(uid, token, filename, content, visibility) ==
    LET auth == check_login_token(uid, token)
    IN  /\ filename \in NamesOf(library, uid) \/ FileCount(library) < MaxFiles
        /\ library' = IF auth # "owner" THEN library
                      ELSE [library EXCEPT ![uid] =
                              {f \in @ : f.name # filename}
                                \cup {[name |-> filename, visibility |-> visibility,
                                       content |-> content]}]
        /\ Answer(Seen("create_file", uid, filename, token, 0,
                       IF auth = "owner" THEN "done" ELSE auth, <<>>))
        /\ UNCHANGED <<now, share, users, minted>>

\* modify_file: False unless the token is the owner's and the file exists;
\* the visibility is kept when none ("None") is sent
modify_file(uid, filename, new_content, token, visibility) ==
    LET auth == check_login_token(uid, token)
        found == filename \in NamesOf(library, uid)
    IN  /\ library' = IF auth = "owner" /\ found
                      THEN [library EXCEPT ![uid] =
                              {IF f.name # filename THEN f
                               ELSE [f EXCEPT !.content = new_content,
                                              !.visibility =
                                                 IF visibility = "None" THEN @
                                                 ELSE visibility]
                                 : f \in @}]
                      ELSE library
        /\ Answer(Seen("modify_file", uid, filename, token, 0,
                       IF auth = "owner" THEN (IF found THEN "done" ELSE "false")
                       ELSE auth, <<>>))
        /\ UNCHANGED <<now, share, users, minted>>

\* remove_file: False unless the token is the owner's and the file exists
remove_file(uid, filename, token) ==
    LET auth == check_login_token(uid, token)
        found == filename \in NamesOf(library, uid)
    IN  /\ library' = IF auth = "owner" /\ found
                      THEN [library EXCEPT ![uid] = {f \in @ : f.name # filename}]
                      ELSE library
        /\ Answer(Seen("remove_file", uid, filename, token, 0,
                       IF auth = "owner" THEN (IF found THEN "done" ELSE "false")
                       ELSE auth, <<>>))
        /\ UNCHANGED <<now, share, users, minted>>

\* datetime.now(timezone.utc) moves on to a later instant
Advance(I) ==
    /\ \E t \in I : t > now /\ now' = t
    /\ Answer(NoSeen)
    /\ UNCHANGED <<library, share, users, minted>>

\* http_create_share_token: 200 with the token, 403 when _create_share_token
\* gives None, and its exception is a 500
http_create_share_token(uid, login_token, filename, minutes) ==
    LET res == _create_share_token(minutes, uid, login_token, filename, library, now)
    IN  /\ share' = IF res.status = "ok" /\ share.status = "none"
                    THEN [status |-> "ok", uid |-> uid, filename |-> filename,
                          minutes |-> minutes, at |-> now, token |-> res.token,
                          expired |-> FALSE]
                    ELSE share
        /\ Answer(Seen("create_share_token", uid, filename, login_token, minutes,
                       res.status, res.token))
        /\ UNCHANGED <<library, now, users, minted>>

\* the share tokens presented: the one created, the same with a blank after
\* it, and tokens put together from its signature and other fields
ShareTokens ==
    IF share.status # "ok" THEN {}
    ELSE LET exp_ts == expiry_of(share.at, share.minutes)
             sig == SubSeq(share.token, Len(share.token), Len(share.token))
         IN  {share.token,
              share.token \o <<Blank>>,
              SubSeq(share.token, 1, Len(share.token) - 1),
              token_text(share.uid, share.filename,
                         str_int(exp_ts + SecondsPerMinute), sig),
              token_text(share.uid, share.filename, <<Ch("x")>>, sig)}
             \cup {token_text(u, share.filename, str_int(exp_ts), sig) : u \in Owners}
             \cup {token_text(share.uid, f, str_int(exp_ts), sig) : f \in FileNames}

\* the token was refused because its time is over and for no other reason
RefusedForExpiry(file_name, token, user) ==
    /\ share.status = "ok" /\ token = share.token
    /\ file_name = share.filename /\ user = share.uid
    /\ file_name \in NamesOf(library, user)
    /\ ~_check_share_token(file_name, token, user, library, now)

\* _check_share_token applied to a presented token
check_share_token(file_name, token, user) ==
    LET valid == _check_share_token(file_name, token, user, library, now)
    IN  /\ share' = IF RefusedForExpiry(file_name, token, user)
                    THEN [share EXCEPT !.expired = TRUE] ELSE share
        /\ Answer(Seen("check", user, file_name, token, 0,
                       IF valid THEN "true" ELSE "false", <<>>))
        /\ UNCHANGED <<library, now, users, minted>>

\* http_read_file: 200 with the content, or 403
http_read_file(uid, filename, token) ==
    LET content == read_file(uid, filename, token, library, now)
    IN  /\ Answer(Seen("read_file", uid, filename, token, 0,
                       IF content THEN "content" ELSE "none", <<>>))
        /\ UNCHANGED <<library, now, share, users, minted>>

\* uuid.uuid4(): an id that no user has
uuid4 == {u \in Owners : \A row \in users : row.UID # u}

\* login_user: the row with this username and this password, and its token
login_user(username, password) ==
    LET usuario == {row \in users : row.username = username
                                    /\ row.password = password}
    IN  /\ \E row \in IF usuario = {} THEN {[UID |-> <<>>]} ELSE usuario :
              LET uid == row.UID
                  token == str_uuid(uuid5(Secret_uuid, uid))
              IN  /\ minted' = IF usuario = {} THEN minted
                               ELSE minted \cup {[uid |-> uid, token |-> token]}
                  /\ Answer(Seen("login_user", uid, <<>>, <<>>, 0,
                                 IF usuario = {} THEN "UNAUTHORIZED" ELSE "OK",
                                 IF usuario = {} THEN <<>> ELSE token))
        /\ UNCHANGED <<library, now, share, users>>

\* create_user (src/user.py): a new row with a new uid and an empty library,
\* and the token of that uid; a username that exists logs in instead
create_user(username, password) ==
    /\ \A row \in users : row.username # username
    /\ \E uid \in uuid4 :
          /\ users' = users \cup {[username |-> username, password |-> password,
                                   UID |-> uid]}
          /\ library' = [library EXCEPT ![uid] = {}]
          /\ minted' = minted \cup {[uid |-> uid,
                                     token |-> str_uuid(uuid5(Secret_uuid, uid))]}
          /\ Answer(Seen("create_user", uid, <<>>, <<>>, 0, "OK",
                         str_uuid(uuid5(Secret_uuid, uid))))
    /\ UNCHANGED <<now, share>>

InitFiles ==
    /\ library = [u \in Owners |-> {}]
    /\ now = 0
    /\ share = NoShare
    /\ seen = NoSeen
    /\ users = {[username |-> "alice", password |-> "pw", UID |-> <<Ch("a")>>]}
    /\ minted = {}

\* ================================================================= ratings
\* rate_movie of src/P3/api.py: one step per statement.  Peliculas.rating,
\* which the last statement sets to media_rating(movieid), is not held.
RateTokens == {"t_u1", "t_u2", "bad"}
RateMovies == Movies \cup {"m9"}        \* m9 is not in Peliculas
Ratings == {0, 7, 11}                   \* ratings sent in the body
InitVotes == [m \in Movies |-> IF m = "m1" THEN 0 ELSE 3]

IdleRate == [pc |-> "idle", user_id |-> NoUser, movieid |-> "m1", rating |-> 0,
             status |-> "none", votes0 |-> 0, had |-> FALSE]

\* a statement of rate_movie leaves the carts, the orders and the files alone
SetRate(rec) == rate' = rec /\ UNCHANGED <<shop, files, backoffice>>

\* SELECT rating FROM Calificacion WHERE movieid = :movieid AND user_id = :user_id
RatingsOf(C, u, m) == {c \in C : c.user_id = u /\ c.movieid = m}

\* http_rate_movie: the user of the token, the rating's range, then rate_movie
\* up to get_movies_by_id
http_rate_movie(token, m, rating) ==
    /\ rate.pc \in {"idle", "done"}
    /\ LET U == UsersByToken(Usuario, token)
           new == [IdleRate EXCEPT !.movieid = m, !.rating = rating]
       IN  IF U = {}
           THEN SetRate([new EXCEPT !.pc = "done", !.status = "USER_NOT_FOUND"])
           ELSE \E u \in U :
                  IF ~(0 <= rating /\ rating <= 10)
                  THEN SetRate([new EXCEPT !.pc = "done", !.user_id = u,
                                           !.status = "BAD_REQUEST"])
                  ELSE IF m \notin DOMAIN Peliculas
                  THEN SetRate([new EXCEPT !.pc = "done", !.user_id = u,
                                           !.status = "MOVIE_NOT_FOUND"])
                  ELSE SetRate([new EXCEPT !.pc = "rate_select", !.user_id = u,
                                  !.votes0 = votes[m],
                                  !.had = RatingsOf(Calificacion, u, m) # {}])
    /\ UNCHANGED <<Calificacion, votes>>

\* rate_movie: if result is False or result is None (no row was read)
\* mutant: the vote is counted whether or not a row was read
no_rating_yet_always(result) == TRUE

no_rating_yet(result) == result = {}

\* rate_movie: the SELECT of the user's rating of the movie
rate_movie_select ==
    /\ rate.pc = "rate_select"
    /\ SetRate([rate EXCEPT !.pc =
                  IF no_rating_yet(RatingsOf(Calificacion, rate.user_id, rate.movieid))
                  THEN "rate_votes" ELSE "rate_upsert"])
    /\ UNCHANGED <<Calificacion, votes>>

\* rate_movie: UPDATE Peliculas SET votes = votes + 1
rate_movie_votes ==
    /\ rate.pc = "rate_votes"
    /\ votes' = [votes EXCEPT ![rate.movieid] = @ + 1]
    /\ SetRate([rate EXCEPT !.pc = "rate_upsert"])
    /\ UNCHANGED Calificacion

\* rate_movie: INSERT INTO Calificacion ... ON CONFLICT(user_id, movieid)
\* DO UPDATE SET rating = :rating
rate_movie_upsert ==
    /\ rate.pc = "rate_upsert"
    /\ Calificacion' =
          (Calificacion \ RatingsOf(Calificacion, rate.user_id, rate.movieid))
            \cup {[user_id |-> rate.user_id, movieid |-> rate.movieid,
                   rating |-> rate.rating]}
    /\ SetRate([rate EXCEPT !.pc = "rate_mean"])
    /\ UNCHANGED votes

\* rate_movie: UPDATE Peliculas SET rating = media_rating(:movieid); return "OK"
rate_movie_mean ==
    /\ rate.pc = "rate_mean"
    /\ SetRate([rate EXCEPT !.pc = "done", !.status = "OK"])
    /\ UNCHANGED <<Calificacion, votes>>

InitRatings ==
    /\ Calificacion = {}
    /\ votes = InitVotes
    /\ rate = IdleRate

\* ============================================================ back office
\* Orders as reported, the catalog's prices and the user accounts of
\* src/P3/api.py and src/P3/user.py.
\* n: the parity of the number of answers given so far
NoReport == [op |-> "none", order_id |-> None, uid |-> NoUser, password |-> "",
             status |-> "none", movies |-> {}, first |-> {}, n |-> 0]

\* the prices an administrator sets with update_movie
CatalogPrices == {200, 300}

\* the order ids get_order is asked for
OrderIds == 1..(MaxOrders + 1)

\* requests of the back office are served while no cart request is in flight
NoRequest == \A r \in Reqs : req[r].pc \in {"idle", "done"}

Report(op, order_id, uid, password, status, movies, first) ==
    [op |-> op, order_id |-> order_id, uid |-> uid, password |-> password,
     status |-> status, movies |-> movies, first |-> first, n |-> 1 - report.n]

\* update_movie(movieid, {"price": price}): UPDATE Peliculas SET price = :price
update_movie(movieid, price) ==
    /\ NoRequest
    /\ Peliculas' = [Peliculas EXCEPT ![movieid] = price]
    /\ UNCHANGED <<shop, files, ratings, report>>

\* get_order: SELECT m.movieid, m.title, m.price FROM Peliculas m
\* JOIN Pedido_Pelicula pm ON m.movieid = pm.movieid WHERE pm.order_id = :order_id
movies_list(P, PP, order_id) ==
    {[movieid |-> l.movieid, price |-> P[l.movieid]] :
        l \in {x \in PP : x.order_id = order_id}}

\* get_order(order_id); `first` keeps the first list reported of an order
get_order(order_id) ==
    LET order_data == {i \in 1..Len(Pedido) : Pedido[i].order_id = order_id}
        movies == movies_list(Peliculas, Pedido_Pelicula, order_id)
        status == IF order_data = {} THEN "ORDER_NOT_FOUND"
                  ELSE IF movies = {} THEN "MOVIES_NOT_FOUND"
                  ELSE "OK"
    IN  /\ NoRequest
        /\ report' = Report("get_order", order_id, NoUser, "", status,
                            IF order_data = {} THEN {} ELSE movies,
                            IF report.first = {} /\ status = "OK"
                            THEN {[order_id |-> order_id, movies |-> movies]}
                            ELSE report.first)
        /\ UNCHANGED <<shop, files, ratings, Peliculas>>

\* text LIKE :pattern; "%" matches every text, and of the patterns sent only
\* "%" holds a wildcard
Like(text, pattern) == pattern = "%" \/ text = pattern

\* the ids delete_user is called with: the users, an id no user has, and "%"
UidArgs == UserIds \cup {"u9", "%"}

\* SELECT ... FROM Usuario WHERE user_id LIKE :uid
UsuarioLike(U, uid) == {u \in DOMAIN U : Like(u, uid)}

\* SELECT COUNT(*) FROM Carrito_Pelicula cp JOIN Carrito c ... WHERE c.user_id LIKE :uid
movie_count(C, CP, uid) ==
    Cardinality({l \in CP : \E c \in C : c.cart_id = l.cart_id /\ Like(c.user_id, uid)})

\* SELECT COUNT(*) FROM Pedido WHERE user_id LIKE :uid
order_count(P, uid) ==
    Cardinality({i \in 1..Len(P) : Like(P[i].user_id, uid)})

\* DELETE FROM Usuario WHERE user_id LIKE :uid, and the carts and cart lines
\* that go with the rows (CASCADE)
UsuarioDelete(U, M) == [u \in DOMAIN U \ M |-> U[u]]
CarritoCascade(C, M) == {c \in C : c.user_id \notin M}
LinesCascade(C, CP, M) ==
    {l \in CP : \E c \in CarritoCascade(C, M) : c.cart_id = l.cart_id}

\* delete_user(uid): its statements, no other request in between; data[0] of
\* the first two queries is any of the rows found (r0, r1)
delete_user(uid) ==
    LET M == UsuarioLike(Usuario, uid)
    IN  /\ NoRequest
        /\ \E r0, r1 \in IF M = {} THEN {NoUser} ELSE M :
              LET status ==
                      IF M # {} /\ Usuario[r0].admin THEN "FORBIDDEN"
                      ELSE IF M = {} \/ ~Usuario[r1].active THEN "NOT_FOUND"
                      ELSE IF movie_count(Carrito, Carrito_Pelicula, uid) > 0
                           THEN "NOT_EMPTY_CART"
                      ELSE "OK"
                  kept == order_count(Pedido, uid) > 0
              IN  /\ Usuario' =
                        IF status # "OK" THEN Usuario
                        ELSE IF kept
                             THEN [u \in DOMAIN Usuario |->
                                     IF u \in M
                                     THEN [Usuario[u] EXCEPT !.active = FALSE]
                                     ELSE Usuario[u]]
                        ELSE UsuarioDelete(Usuario, M)
                  /\ Carrito' = IF status = "OK" /\ ~kept
                                THEN CarritoCascade(Carrito, M) ELSE Carrito
                  /\ Carrito_Pelicula' =
                        IF status = "OK" /\ ~kept
                        THEN LinesCascade(Carrito, Carrito_Pelicula, M)
                        ELSE Carrito_Pelicula
                  /\ report' = Report("delete_user", None, uid, "", status, {},
                                      report.first)
        /\ UNCHANGED <<Pedido, Pedido_Pelicula, cart_seq, req, faults, files,
                       ratings, Peliculas>>

\* login_user of src/P3/user.py: SELECT user_id, token FROM Usuario
\* WHERE name ILIKE :name AND password = :password AND active = TRUE
shop_login_user(username, password) ==
    LET data == {u \in DOMAIN Usuario :
                    /\ Like(Usuario[u].name, username)
                    /\ Usuario[u].password = password
                    /\ Usuario[u].active}
    IN  /\ NoRequest
        /\ report' = Report("login_user", None, username, password,
                            IF data # {} THEN "OK" ELSE "ERROR", {}, report.first)
        /\ UNCHANGED <<shop, files, ratings, Peliculas>>

\* --------------------------------------------------------- specification
\* u1 and u2 exist with their carts (create_user); u1 has bought its first
\* cart (one m1) and holds the cart created after that purchase, with the
\* lines L; u2 holds the lines L2 and is an administrator or not (As)
InitShop(L, L2, Bs, Ds, As) ==
    /\ Usuario \in {[u \in UserIds |->
                       IF u = "u1"
                       THEN [token |-> "t_u1", balance |-> b, discount |-> d,
                             active |-> TRUE, admin |-> FALSE,
                             name |-> "alice", password |-> "pw"]
                       ELSE [token |-> "t_u2", balance |-> 400, discount |-> 0,
                             active |-> TRUE, admin |-> a,
                             name |-> "bob", password |-> "pw"]]
                    : b \in Bs, d \in Ds, a \in As}
    /\ Carrito = {[cart_id |-> 3, user_id |-> "u1"], [cart_id |-> 2, user_id |-> "u2"]}
    /\ Carrito_Pelicula = L2 \cup L
    /\ Pedido = <<[order_id |-> 1, user_id |-> "u1", total |-> 200, paid |-> TRUE]>>
    /\ Pedido_Pelicula = {[order_id |-> 1, movieid |-> "m1", quantity |-> 1]}
    /\ cart_seq = 3
    /\ req = [r \in Reqs |-> IdleReq]
    /\ faults = 0
    /\ Peliculas = InitPeliculas
    /\ report = NoReport

\* u2 has put one m2 into its cart and is no administrator
InitStore(L, Bs, Ds) ==
    InitShop(L, {[cart_id |-> 2, movieid |-> "m2", quantity |-> 1]}, Bs, Ds, {FALSE})

InitWith(L) == InitStore(L, InitBalances, InitDiscounts) /\ InitFiles /\ InitRatings

Init == InitWith({})

\* carts u1 can have filled before two overlapping requests arrive
InitCarts == {{},
              {[cart_id |-> 3, movieid |-> "m1", quantity |-> 2]},
              {[cart_id |-> 3, movieid |-> "m1", quantity |-> 3],
               [cart_id |-> 3, movieid |-> "m2", quantity |-> 1]}}

InitConc == \E L \in InitCarts : InitWith(L)

CartStep(r, fa) ==
    \/ add_to_cart_user(r, fa)
    \/ add_to_cart_check(r, fa)
    \/ add_to_cart_write(r, fa)
    \/ find_movie_in_cart_user(r, fa)
    \/ find_movie_in_cart(r, fa)
    \/ delete_from_cart_write(r, fa)

CheckoutStep(r, fa) ==
    \/ checkout_user(r, fa)
    \/ get_cart_total_sum(r, fa)
    \/ get_cart_total_discount(r, fa)
    \/ get_balance(r, fa)
    \/ create_order_cart(r, fa)
    \/ create_order(r, fa)
    \/ add_movies_to_order(r, fa)
    \/ checkout_paid(r, fa)
    \/ checkout_followups(r, fa)
    \/ checkout_return(r, fa)

\* Qs: the quantity arguments the cart requests are issued with
Begin(r, conc, track, Qs) ==
    \/ http_add_to_cart(r, conc, track, Qs)
    \/ http_delete_from_cart(r, conc, track, Qs)
    \/ http_checkout(r, conc, track)

\* requests served one at a time, the store never failing
Quantities == 0..MaxQuantity

Next == Begin(1, FALSE, FALSE, Quantities) \/ CartStep(1, FALSE) \/ CheckoutStep(1, FALSE)
Spec == Init /\ [][Next]_vars

\* requests served one at a time, a statement of checkout may raise
NextFault == Begin(1, FALSE, FALSE, {1}) \/ CartStep(1, FALSE) \/ CheckoutStep(1, TRUE)
SpecFault == Init /\ [][NextFault]_vars

\* cart requests served one at a time, each remembering the one before
NextCart ==
    \/ http_add_to_cart(1, FALSE, TRUE, Quantities)
    \/ http_delete_from_cart(1, FALSE, TRUE, Quantities)
    \/ CartStep(1, FALSE)
SpecCart == Init /\ [][NextCart]_vars

\* two requests whose statements interleave
NextConc == \E r \in Reqs : Begin(r, TRUE, FALSE, Quantities) \/ CartStep(r, FALSE) \/ CheckoutStep(r, FALSE)
SpecConc == InitConc /\ [][NextConc]_vars

\* checkouts of carts filled beforehand, under every discount a user can hold
Discounts == 0..100

InitTotal ==
    /\ \E L \in InitCarts : InitStore(L, {2000}, Discounts)
    /\ InitFiles /\ InitRatings

NextTotal == http_checkout(1, FALSE, FALSE) \/ CheckoutStep(1, FALSE)
SpecTotal == InitTotal /\ [][NextTotal]_vars

\* orders read back while the catalog and the carts go on changing
InitOrder == InitStore({}, {2000}, {0}) /\ InitFiles /\ InitRatings

NextOrder ==
    \/ Begin(1, FALSE, FALSE, {1})
    \/ CartStep(1, FALSE)
    \/ CheckoutStep(1, FALSE)
    \/ \E p \in CatalogPrices : update_movie("m1", p)
    \/ \E o \in OrderIds : get_order(o)
SpecOrder == InitOrder /\ [][NextOrder]_vars

\* accounts deleted or deactivated between the cart requests of u1; u2 may
\* hold no line and may be an administrator
InitUsers ==
    /\ \E L2 \in {{}, {[cart_id |-> 2, movieid |-> "m2", quantity |-> 1]}} :
          InitShop({}, L2, {2000}, {0}, BOOLEAN)
    /\ InitFiles /\ InitRatings

NextUsers ==
    \/ http_add_to_cart(1, FALSE, FALSE, {1})
    \/ add_to_cart_user(1, FALSE)
    \/ add_to_cart_check(1, FALSE)
    \/ add_to_cart_write(1, FALSE)
    \/ http_checkout(1, FALSE, FALSE)
    \/ CheckoutStep(1, FALSE)
    \/ \E uid \in UidArgs : delete_user(uid)
    \/ \E p \in Passwords : shop_login_user("alice", p)
SpecUsers == InitUsers /\ [][NextUsers]_vars

\* u1 and u2 as create_user leaves them, before any purchase: one cart each,
\* no order; requests served one at a time
InitAgain ==
    /\ Usuario = [u \in UserIds |->
                    [token |-> IF u = "u1" THEN "t_u1" ELSE "t_u2",
                     balance |-> 2000, discount |-> 0, active |-> TRUE,
                     admin |-> FALSE, name |-> IF u = "u1" THEN "alice" ELSE "bob",
                     password |-> "pw"]]
    /\ Carrito = {[cart_id |-> 1, user_id |-> "u1"], [cart_id |-> 2, user_id |-> "u2"]}
    /\ Carrito_Pelicula = {}
    /\ Pedido = <<>>
    /\ Pedido_Pelicula = {}
    /\ cart_seq = 2
    /\ req = [r \in Reqs |-> IdleReq]
    /\ faults = 0
    /\ Peliculas = InitPeliculas
    /\ report = NoReport
    /\ InitFiles /\ InitRatings

NextAgain == Begin(1, FALSE, FALSE, {1}) \/ CartStep(1, FALSE) \/ CheckoutStep(1, FALSE)
SpecAgain == InitAgain /\ [][NextAgain]_vars

\* the file service alone: users, their session tokens and their libraries
InitIdle == InitStore({}, {600}, {0}) /\ InitFiles /\ InitRatings

NextSession ==
    \/ \E n \in Usernames, p \in Passwords : create_user(n, p) \/ login_user(n, p)
    \/ \E u \in Owners, t \in LoginTokens, f \in FileNames :
          \/ \E v \in Visibilities : create_file(u, t, f, Content0, v)
          \/ remove_file(u, f, t)
          \/ http_read_file(u, f, t)
SpecSession == InitIdle /\ [][NextSession]_vars

\* the creation of share tokens, asked with every login token
NextCreate ==
    \E u \in Owners, f \in FileNames :
       \/ create_file(u, session_token(u), f, Content0, "private")
       \/ remove_file(u, f, session_token(u))
       \/ \E t \in LoginTokens, mi \in 0..MaxMinutes :
             http_create_share_token(u, t, f, mi)
SpecCreate == InitIdle /\ [][NextCreate]_vars

\* the verification of share tokens: the owners keep private files, one
\* share token is created, and the clock is read at its creation and a second
\* after the longest validity
ShareMinutes == {0, MaxMinutes}
ShareInstants == {0, MaxMinutes * TicksPerMinute + TicksPerSecond}

NextShare ==
    \/ Advance(ShareInstants)
    \/ \E u \in Owners, f \in FileNames :
          \/ create_file(u, session_token(u), f, Content0, "private")
          \/ remove_file(u, f, session_token(u))
          \/ \E mi \in ShareMinutes :
                /\ share.status = "none"
                /\ http_create_share_token(u, session_token(u), f, mi)
          \/ \E t \in ShareTokens : check_share_token(f, t, u)
          \/ share.status = "ok" /\ http_read_file(u, f, share.token)
SpecShare == InitIdle /\ [][NextShare]_vars

\* files of both visibilities read with every kind of token: none, a session
\* token, a text that is no token, the share token created and its variants
ReadTokens == LoginTokens \cup {<<>>} \cup ShareTokens

NextRead ==
    \/ Advance(ShareInstants)
    \/ \E u \in Owners, f \in FileNames :
          \/ \E v \in Visibilities : create_file(u, session_token(u), f, Content0, v)
          \/ remove_file(u, f, session_token(u))
          \/ /\ share.status = "none"
             /\ http_create_share_token(u, session_token(u), f, MaxMinutes)
          \/ \E t \in ReadTokens : http_read_file(u, f, t)
SpecRead == InitIdle /\ [][NextRead]_vars

\* the libraries written with every kind of token: the session tokens, a
\* text that is no token and the share token created
WriteTokens == LoginTokens \cup (IF share.status = "ok" THEN {share.token} ELSE {})

NextWrite ==
    \E u \in Owners, f \in FileNames :
       \/ /\ share.status = "none"
          /\ http_create_share_token(u, session_token(u), f, MaxMinutes)
       \/ \E t \in WriteTokens :
             \/ remove_file(u, f, t)
             \/ \E c \in Contents :
                   \/ \E v \in Visibilities : create_file(u, t, f, c, v)
                   \/ \E v \in Visibilities \cup {"None"} : modify_file(u, f, c, t, v)
SpecWrite == InitIdle /\ [][NextWrite]_vars

\* one owner and one private file, the clock read at every instant
ExpiryOwner == <<Ch("a")>>
ExpiryFile == <<Ch("f"), Dot, Ch("f")>>

InitExpiry ==
    /\ InitStore({}, {600}, {0}) /\ InitRatings
    /\ library = [u \in Owners |->
                    IF u = ExpiryOwner
                    THEN {[name |-> ExpiryFile, visibility |-> "private",
                           content |-> Content0]} ELSE {}]
    /\ now \in {t \in Instants : t <= MaxLag}
    /\ share = NoShare
    /\ seen = NoSeen
    /\ users = {[username |-> "alice", password |-> "pw", UID |-> ExpiryOwner]}
    /\ minted = {}

NextExpiry ==
    \/ Advance(Instants)
    \/ \E mi \in 0..MaxMinutes :
          /\ share.status = "none"
          /\ http_create_share_token(ExpiryOwner, session_token(ExpiryOwner),
                                     ExpiryFile, mi)
    \/ share.status = "ok" /\ check_share_token(ExpiryFile, share.token, ExpiryOwner)
    \/ remove_file(ExpiryOwner, ExpiryFile, session_token(ExpiryOwner))
SpecExpiry == InitExpiry /\ [][NextExpiry]_vars

\* ratings, one request after the other
NextRate ==
    \/ \E t \in RateTokens, m \in RateMovies, x \in Ratings : http_rate_movie(t, m, x)
    \/ rate_movie_select
    \/ rate_movie_votes
    \/ rate_movie_upsert
    \/ rate_movie_mean
SpecRate == InitIdle /\ [][NextRate]_vars

\* ================================================================ properties
\* total(u) as specified: sum of price * quantity over the cart's lines,
\* times (1 - discount / 100)
CartTotalOf(S, u) ==
    (SumPriceQty(LinesOfUser(S.Carrito, S.Carrito_Pelicula, u))
        * (100 - S.Usuario[u].discount)) \div 100

\* the (item, quantity) pairs of a user's cart / of an order
CartPairs(S, u) ==
    {<<l.movieid, l.quantity>> : l \in LinesOfUser(S.Carrito, S.Carrito_Pelicula, u)}

OrderPairs(PP, o) ==
    {<<l.movieid, l.quantity>> : l \in {x \in PP : x.order_id = o}}

DoneReq(r, op) == req[r].pc = "done" /\ req[r].op = op

Resolved(r) == req[r].user_id # NoUser

\* C1: a checkout of a user whose balance is below the cart total returns
\* INSUFFICIENT_BALANCE and leaves users, carts, cart lines, orders and order
\* lines exactly as they were before the call.
C1_InsufficientBalanceChangesNothing ==
    \A r \in Reqs :
        (/\ DoneReq(r, "checkout") /\ Resolved(r)
         /\ req[r].pre.Usuario[req[r].user_id].balance
                < CartTotalOf(req[r].pre, req[r].user_id))
        => (req[r].status = "INSUFFICIENT_BALANCE" /\ Snapshot = req[r].pre)

C1_Witness ==
    \E r \in Reqs :
        /\ DoneReq(r, "checkout") /\ Resolved(r)
        /\ req[r].pre.Usuario[req[r].user_id].balance
               < CartTotalOf(req[r].pre, req[r].user_id)
        /\ req[r].pre.Usuario[req[r].user_id].discount > 0
        /\ req[r].status = "INSUFFICIENT_BALANCE"

CheckoutOrder == <<"resolve_user", "compute_total", "read_balance",
                   "check_sufficiency", "create_order", "copy_lines",
                   "mark_paid", "debit_balance", "drain_cart", "return">>

StepFailure == [resolve_user |-> "USER_NOT_FOUND",
                compute_total |-> "PRICE_NOT_FOUND",
                read_balance |-> "BALANCE_NOT_FOUND",
                check_sufficiency |-> "INSUFFICIENT_BALANCE",
                create_order |-> "CREATE_ORDER_FAILED",
                copy_lines |-> "ADD_MOVIES_TO_ORDER_FAILED",
                mark_paid |-> "UPDATE_PAID_FAILED",
                debit_balance |-> "none",
                drain_cart |-> "none",
                return |-> "ORDER_ID_NOT_FOUND"]

\* the order row a checkout has inserted and not marked paid
UnpaidOrderOf(q) == [order_id |-> q.order_id, user_id |-> q.user_id,
                     total |-> q.total, paid |-> FALSE]

C5_StepsInOrderShortCircuit ==
    \A r \in Reqs :
        LET q == req[r]
            n == Len(q.steps)
        IN (q.op = "checkout" /\ n > 0) =>
           /\ n <= Len(CheckoutOrder) /\ q.steps = SubSeq(CheckoutOrder, 1, n)
           /\ (q.pc = "done" /\ q.status # "OK") =>
                 /\ q.status = StepFailure[q.steps[n]]
                 /\ q.status # "ORDER_ID_NOT_FOUND" =>
                       /\ Usuario = q.pre.Usuario /\ Carrito = q.pre.Carrito
                       /\ Carrito_Pelicula = q.pre.Carrito_Pelicula
                 /\ q.status \in {"USER_NOT_FOUND", "PRICE_NOT_FOUND",
                                  "BALANCE_NOT_FOUND", "INSUFFICIENT_BALANCE",
                                  "CREATE_ORDER_FAILED"}
                      => Pedido = q.pre.Pedido /\ Pedido_Pelicula = q.pre.Pedido_Pelicula
                 /\ q.status = "ADD_MOVIES_TO_ORDER_FAILED"
                      => /\ Pedido = Append(q.pre.Pedido, UnpaidOrderOf(q))
                         /\ Pedido_Pelicula = q.pre.Pedido_Pelicula
                 /\ q.status = "UPDATE_PAID_FAILED"
                      => Pedido = Append(q.pre.Pedido, UnpaidOrderOf(q))
           /\ (q.pc = "done" /\ q.current_balance # None
                  /\ q.current_balance - q.total < 0)
                 => q.status = "INSUFFICIENT_BALANCE"

C5_Witness ==
    \E r \in Reqs :
        /\ DoneReq(r, "checkout")
        /\ req[r].status = "ADD_MOVIES_TO_ORDER_FAILED"
        /\ req[r].steps = SubSeq(CheckoutOrder, 1, 6)
        /\ CartPairs(req[r].pre, req[r].user_id) # {}

\* C6: of two checkouts of one user that start on the same non-empty cart
\* and overlap, at most one turns that cart into an order: the cart's lines
\* are copied into at most one new order and the user is charged no more
\* than one purchase of that cart.
NewOrdersWith(P0, pairs) ==
    {i \in 1..Len(Pedido) :
        /\ ~\E k \in 1..Len(P0) : P0[k].order_id = Pedido[i].order_id
        /\ OrderPairs(Pedido_Pelicula, Pedido[i].order_id) = pairs}

C7_FailedCheckoutLeavesNothing ==
    \A r \in Reqs :
        (DoneReq(r, "checkout") /\ req[r].status # "OK")
        => Snapshot = req[r].pre

\* C8: addItem(u, i, a) followed by addItem(u, i, b) leaves exactly one line
\* for i, with quantity a + b plus the quantity the line had before.
C8_AddTwiceMergesIntoOneLine ==
    \A r \in Reqs :
        LET q == req[r]
        IN (/\ DoneReq(r, "add") /\ q.status = "OK"
            /\ q.prev.op = "add" /\ q.prev.status = "OK"
            /\ q.prev.token = q.token /\ q.prev.movieid = q.movieid)
           => LET L == LinesOf(Carrito, Carrito_Pelicula, q.user_id, q.movieid)
              IN /\ Cardinality(L) = 1
                 /\ \A l \in L :
                       l.quantity = q.prev.line_before + q.prev.quantity + q.quantity

C8_Witness ==
    \E r \in Reqs :
        LET q == req[r]
        IN /\ DoneReq(r, "add") /\ q.status = "OK"
           /\ q.prev.op = "add" /\ q.prev.status = "OK"
           /\ q.prev.token = q.token /\ q.prev.movieid = q.movieid
           /\ q.prev.line_before = 0 /\ q.prev.quantity = 1 /\ q.quantity = 2
           /\ LineQty(Carrito, Carrito_Pelicula, q.user_id, q.movieid) = 3

\* C9: removeItem(u, i, q) on a line of quantity n with q > n returns
\* TOO_MANY_MOVIES and leaves that line and every other line unchanged.
C9_RemoveTooManyChangesNothing ==
    \A r \in Reqs :
        LET q == req[r]
        IN (/\ DoneReq(r, "delete") /\ Resolved(r)
            /\ q.line_before >= 1 /\ q.quantity > q.line_before)
           => (q.status = "TOO_MANY_MOVIES" /\ Snapshot = q.pre)

C9_Witness ==
    \E r \in Reqs :
        /\ DoneReq(r, "delete") /\ Resolved(r)
        /\ req[r].line_before = 2 /\ req[r].quantity = 3
        /\ req[r].status = "TOO_MANY_MOVIES"
        /\ LineQty(Carrito, Carrito_Pelicula, req[r].user_id, req[r].movieid) = 2

\* C10: removeItem(u, i, q) on a line of quantity n with 1 <= q <= n returns
\* OK, leaves quantity n - q when q < n and no line for i (get_cart shows no
\* entry) when q = n, other lines untouched; for an item without a line it
\* returns MOVIE_NOT_FOUND and changes nothing.
C10_RemoveDecrementsOrDeletes ==
    \A r \in Reqs :
        LET q == req[r]
            u == q.user_id
            L == LinesOf(Carrito, Carrito_Pelicula, u, q.movieid)
            others(CP) == {l \in CP : ~(l.cart_id \in CartIdsOf(Carrito, u)
                                         /\ l.movieid = q.movieid)}
        IN (DoneReq(r, "delete") /\ Resolved(r)) =>
           /\ (q.line_before >= 1 /\ q.quantity <= q.line_before) =>
                 /\ q.status = "OK"
                 /\ others(Carrito_Pelicula) = others(q.pre.Carrito_Pelicula)
                 /\ q.quantity < q.line_before =>
                       /\ Cardinality(L) = 1
                       /\ \A l \in L : l.quantity = q.line_before - q.quantity
                 /\ q.quantity = q.line_before =>
                       /\ L = {}
                       /\ q.movieid \notin get_cart(Carrito, Carrito_Pelicula, u, "none")
           /\ q.line_before = 0 =>
                 (q.status = "MOVIE_NOT_FOUND" /\ Snapshot = q.pre)

C10_Witness ==
    \E r \in Reqs :
        /\ DoneReq(r, "delete") /\ Resolved(r)
        /\ req[r].line_before = 3 /\ req[r].quantity = 3
        /\ req[r].status = "OK"
        /\ req[r].movieid \notin
              get_cart(Carrito, Carrito_Pelicula, req[r].user_id, "none")
        /\ LinesOfUser(Carrito, Carrito_Pelicula, req[r].user_id) # {}

\* C11: with requests served one at a time, every cart holds at most one
\* line per item and every cart line has a quantity >= 1.
C11_OneLinePerItemPositiveQuantity ==
    /\ \A l \in Carrito_Pelicula : l.quantity \in Nat /\ l.quantity >= 1
    /\ \A l1, l2 \in Carrito_Pelicula :
          (l1.cart_id = l2.cart_id /\ l1.movieid = l2.movieid) => l1 = l2

C11_Witness ==
    \E r \in Reqs :
        /\ DoneReq(r, "delete") /\ req[r].status = "OK"
        /\ req[r].line_before = 2 /\ req[r].quantity = 1
        /\ Len(Pedido) = MaxOrders
        /\ Cardinality(LinesOfUser(Carrito, Carrito_Pelicula, req[r].user_id)) = 2

\* C12: the total of a cart without lines is exactly 0, not an error, and
\* for an unchanged discount the total of a user's cart is not smaller after
\* a successful addItem than it was before it.
C12_TotalZeroWhenEmptyAndMonotone ==
    \A r \in Reqs :
        LET q == req[r]
        IN /\ (/\ q.op = "checkout" /\ Resolved(r)
               /\ q.pc \notin {"co_user", "co_sum"}
               /\ CartPairs(q.pre, q.user_id) = {})
              => (q.total = 0 /\ q.status # "PRICE_NOT_FOUND")
           /\ (DoneReq(r, "add") /\ q.status = "OK" /\ Resolved(r))
              => get_cart_total(Carrito, Carrito_Pelicula, Usuario, q.user_id)
                   >= get_cart_total(q.pre.Carrito, q.pre.Carrito_Pelicula,
                                     q.pre.Usuario, q.user_id)

C12_Witness ==
    /\ \E r \in Reqs :
          /\ DoneReq(r, "add") /\ req[r].status = "OK" /\ req[r].line_before = 0
          /\ get_cart_total(req[r].pre.Carrito, req[r].pre.Carrito_Pelicula,
                            req[r].pre.Usuario, req[r].user_id) = 0
          /\ get_cart_total(Carrito, Carrito_Pelicula, Usuario, req[r].user_id) = 300
    /\ Len(Pedido) = MaxOrders

\* C13: for every cart and every discount d in 0..100 the total is the sum
\* of price * quantity over the cart's lines times (1 - d / 100), with the
\* discount the user holds at the call, and the order row stores that value.
C13_TotalIsDiscountedSum ==
    \A r \in Reqs :
        LET q == req[r]
            u == q.user_id
            sum == SumPriceQty(LinesOfUser(q.pre.Carrito, q.pre.Carrito_Pelicula, u))
            d == q.pre.Usuario[u].discount
        IN (/\ q.op = "checkout" /\ Resolved(r)
            /\ q.pc \notin {"co_user", "co_sum", "co_discount"})
           => /\ 100 * q.total = sum * (100 - d)
              /\ d = 0 => q.total = sum
              /\ d = 100 => q.total = 0
              /\ \A i \in 1..Len(Pedido) :
                    (Pedido[i].order_id = q.order_id /\ i > Len(q.pre.Pedido))
                    => 100 * Pedido[i].total = sum * (100 - d)

C13_Witness ==
    \E r \in Reqs :
        /\ DoneReq(r, "checkout") /\ req[r].status = "OK"
        /\ req[r].pre.Usuario[req[r].user_id].discount = 33
        /\ Cardinality(CartPairs(req[r].pre, req[r].user_id)) = 2
        /\ req[r].total = 670
        /\ Pedido[Len(Pedido)].total = 670

TokenAccepted ==
    \/ seen.op = "create_file" /\ seen.status = "done"
    \/ seen.op = "remove_file" /\ seen.status \in {"done", "false"}
    \/ /\ seen.op = "read_file" /\ seen.status = "content"
       /\ \E f \in library[seen.uid] :
             f.name = seen.filename /\ f.visibility = "private"

\* C15: the session token is a deterministic injective function of the user
\* id: the tokens handed out for one user id are all the same, two user ids
\* never get the same token, and a token is taken for user u's only if it is
\* the token handed out for u.
C15_SessionTokenInjective ==
    /\ \A p, q \in minted : (p.uid = q.uid) <=> (p.token = q.token)
    /\ TokenAccepted =>
          \A p \in minted : (p.token = seen.token) <=> (p.uid = seen.uid)

\* both users hold their tokens and a file of the second user is written
\* with a token
C15_Witness ==
    /\ Cardinality({p.uid : p \in minted}) = 2
    /\ seen.op = "create_file" /\ seen.status = "done"
    /\ seen.uid = <<Ch("b")>>
    /\ \E p \in minted : p.uid # seen.uid

\* verifyShareToken as specified: the token is owner "." resource "." expiry
\* "." signature, read from its first "." and its last two; the fields are
\* the requested ones, the signature is the one of (owner, resource, expiry),
\* the time in whole seconds is not after the expiry and the owner's library
\* holds the resource
ValidShareToken(resource, owner, token0) ==
    LET t == strip(token0)
    IN  \E i, j, k \in 1..Len(t) :
          /\ 1 < i /\ i < j /\ j < k
          /\ DotsOf(t) \cap (1..i) = {i}
          /\ DotsOf(t) \cap (j..Len(t)) = {j, k}
          /\ LET e == SubSeq(t, j + 1, k - 1)
             IN  /\ SubSeq(t, 1, i - 1) = owner
                 /\ SubSeq(t, i + 1, j - 1) = resource
                 /\ int_parses(e)
                 /\ strip(SubSeq(t, k + 1, Len(t)))
                       = str_uuid(uuid5(Secret_uuid,
                                        owner \o <<Dot>> \o resource \o <<Dot>>
                                              \o str_int(int(e))))
                 /\ timestamp(now) <= int(e)
                 /\ resource \in NamesOf(library, owner)

\* C16: verifyShareToken(resource, owner, token) is true if and only if the
\* token parses, its owner and resource fields are the requested ones, its
\* signature is the recomputed one, the current time in whole seconds is
\* <= expiry and the owner's library holds the resource; an unexpired token
\* is rejected once the resource has been removed.
C16_ShareTokenValidIff ==
    seen.op = "check" =>
       /\ (seen.status = "true")
             <=> ValidShareToken(seen.filename, seen.uid, seen.token)
       /\ seen.filename \notin NamesOf(library, seen.uid) => seen.status = "false"

\* the token created is checked before its expiry, for its owner and its
\* resource, after the resource was removed
C16_Witness ==
    /\ seen.op = "check" /\ seen.status = "false"
    /\ share.status = "ok" /\ seen.token = share.token
    /\ seen.uid = share.uid /\ seen.filename = share.filename
    /\ timestamp(now) <= expiry_of(share.at, share.minutes)
    /\ seen.filename \notin NamesOf(library, seen.uid)
    /\ library[seen.uid] # {}

\* a verification of the created token for its owner and resource, which the
\* library still holds
CheckOfShare ==
    /\ seen.op = "check" /\ share.status = "ok" /\ seen.token = share.token
    /\ seen.uid = share.uid /\ seen.filename = share.filename
    /\ seen.filename \in NamesOf(library, seen.uid)

\* C17 as stated: a token created with validMinutes = 0 is rejected by every
\* verification at least one second after its creation; one created with
\* validMinutes = m > 0 is accepted at creation time and rejected by every
\* verification more than m minutes after its creation; a token rejected for
\* expiry is never accepted again.
C17_ExpiryAsStated ==
    CheckOfShare =>
       /\ (share.minutes = 0 /\ now - share.at >= TicksPerSecond)
             => seen.status = "false"
       /\ (share.minutes > 0 /\ now = share.at) => seen.status = "true"
       /\ (share.minutes > 0 /\ now - share.at > share.minutes * TicksPerMinute)
             => seen.status = "false"
       /\ share.expired => seen.status = "false"

\* C17, amended: as C17, but a token created with validMinutes = m > 0 is
\* rejected by every verification made at least m minutes and one second
\* after its creation.
C17_ExpiryWholeSeconds ==
    CheckOfShare =>
       /\ (share.minutes = 0 /\ now - share.at >= TicksPerSecond)
             => seen.status = "false"
       /\ (share.minutes > 0 /\ now = share.at) => seen.status = "true"
       /\ (share.minutes > 0
           /\ now - share.at >= share.minutes * TicksPerMinute + TicksPerSecond)
             => seen.status = "false"
       /\ share.expired => seen.status = "false"

\* a token of one minute or more is refused a minute and a second after its
\* creation
C17_Witness ==
    /\ CheckOfShare /\ seen.status = "false" /\ share.expired
    /\ share.minutes > 0
    /\ now - share.at = share.minutes * TicksPerMinute + TicksPerSecond

\* C18: createShareToken gives no token whenever the login token is not the
\* owner's session token or the resource is not in the owner's library, and
\* it never changes the library.
C18_CreateShareTokenRejects ==
    seen.op = "create_share_token" =>
       /\ (seen.token # session_token(seen.uid)
           \/ seen.filename \notin NamesOf(seen.before, seen.uid))
             => (seen.status # "ok" /\ seen.result = <<>>)
       /\ library = seen.before

\* the owner asks for a token of a file that the library, which holds
\* another file, does not have
C18_Witness ==
    /\ seen.op = "create_share_token" /\ seen.status = "none"
    /\ seen.token = session_token(seen.uid)
    /\ seen.filename \notin NamesOf(library, seen.uid)
    /\ library[seen.uid] # {}

\* the created token is presented, to _check_share_token or to read_file
ShareTokenPresented ==
    /\ seen.op \in {"check", "read_file"}
    /\ share.status = "ok" /\ seen.token = share.token

Accepted == seen.status \in {"true", "content"}

\* C19: round trip: the token that createShareToken returned for an owner id
\* without "." and an existing resource name, with or without ".", is
\* accepted by read_file / verifyShareToken for that owner and resource while
\* it has not expired, and rejected for any other owner or resource name.
C19_ShareTokenRoundTrip ==
    ShareTokenPresented =>
       /\ (/\ seen.uid = share.uid /\ seen.filename = share.filename
           /\ seen.filename \in NamesOf(library, seen.uid)
           /\ timestamp(now) <= expiry_of(share.at, share.minutes))
             => Accepted
       /\ (seen.uid # share.uid \/ seen.filename # share.filename) => ~Accepted

\* the token of a file whose name holds a "." opens that file
C19_Witness ==
    /\ ShareTokenPresented /\ seen.op = "read_file" /\ seen.status = "content"
    /\ seen.filename = <<Ch("f"), Dot, Ch("f")>>
    /\ Cardinality(library[seen.uid]) = 2

\* the users who have rated a movie
RatersOf(C, m) == {c.user_id : c \in {x \in C : x.movieid = m}}

\* C20: a user's first rating of an item raises the item's vote count by
\* exactly 1, a later rating of it by the same user leaves the vote count as
\* it is and replaces the user's score; ratings by k distinct users raise the
\* vote count by k.
C20_OneVotePerUser ==
    /\ (rate.pc = "done" /\ rate.status = "OK") =>
          /\ votes[rate.movieid] = rate.votes0 + (IF rate.had THEN 0 ELSE 1)
          /\ RatingsOf(Calificacion, rate.user_id, rate.movieid)
                = {[user_id |-> rate.user_id, movieid |-> rate.movieid,
                    rating |-> rate.rating]}
    /\ rate.pc \in {"idle", "done"} =>
          \A m \in Movies :
             votes[m] = InitVotes[m] + Cardinality(RatersOf(Calificacion, m))

\* a user rates again a movie that two users have rated
C20_Witness ==
    /\ rate.pc = "done" /\ rate.status = "OK" /\ rate.had
    /\ rate.rating = 7
    /\ Cardinality(RatersOf(Calificacion, rate.movieid)) = 2
    /\ votes[rate.movieid] = InitVotes[rate.movieid] + 2
\* C21: an order is immutable once created: what get_order reports of an
\* order (its movies with their unit prices) is what it reported the first
\* time, whatever was added, removed, bought or repriced in between
C21_OrderReportFrozen ==
    (report.op = "get_order" /\ report.status = "OK")
        => \A f \in report.first :
              f.order_id = report.order_id => report.movies = f.movies

\* the request just served repeats the one before it, which ended OK
Repeats(q, op) ==
    /\ q.pc = "done" /\ q.op = op /\ q.user_id # NoUser
    /\ q.prev.op = op /\ q.prev.status = "OK"
    /\ q.prev.token = q.token /\ q.prev.movieid = q.movieid
    /\ q.prev.quantity = q.quantity

\* C22 as stated: repeating the same addItem(u, i, q) or removeItem(u, i, q)
\* a second time leaves the quantities of the cart lines as they were after
\* the first request.
C22_RepeatLeavesQuantities ==
    \A r \in Reqs :
        (Repeats(req[r], "add") \/ Repeats(req[r], "delete"))
        => Carrito_Pelicula = req[r].pre.Carrito_Pelicula

\* C22 amended: a repeated addItem adds q again (one line, the quantity
\* before the first request plus 2q); a repeated removeItem removes q again
\* while the line still holds q or more, and otherwise is refused and leaves
\* the lines as they were after the first request.
C22_RepeatAppliesAgain ==
    \A r \in Reqs :
        LET q == req[r]
            L == LinesOf(Carrito, Carrito_Pelicula, q.user_id, q.movieid)
            left == q.prev.line_before - 2 * q.quantity
        IN /\ Repeats(q, "add")
                => /\ q.status = "OK"
                   /\ Cardinality(L) = 1
                   /\ \A l \in L :
                         l.quantity = q.prev.line_before + 2 * q.quantity
           /\ (Repeats(q, "delete") /\ left > 0)
                => /\ q.status = "OK"
                   /\ Cardinality(L) = 1
                   /\ \A l \in L : l.quantity = left
           /\ (Repeats(q, "delete") /\ left = 0)
                => (q.status = "OK" /\ L = {})
           /\ (Repeats(q, "delete") /\ left < 0)
                => /\ q.status # "OK"
                   /\ Carrito_Pelicula = q.pre.Carrito_Pelicula

C22_Witness ==
    \E r \in Reqs :
        /\ Repeats(req[r], "delete")
        /\ req[r].prev.line_before = 3 /\ req[r].quantity = 1
        /\ req[r].status = "OK"
        /\ LineQty(Carrito, Carrito_Pelicula, req[r].user_id, req[r].movieid) = 1

\* the file is in the library the request found, with this visibility
Holds(lib, uid, filename, visibility) ==
    \E f \in lib[uid] : f.name = filename /\ f.visibility = visibility

\* C23: read_file returns the content if and only if the file exists and is
\* public, or is private and the token is the owner's session token or a
\* valid share token for (owner, name); every other request, for a missing
\* file and for a private file without a credential alike, gets the same
\* denial.
C23_ReadIffPermitted ==
    seen.op = "read_file" =>
       /\ seen.status \in {"content", "none"}
       /\ (seen.status = "content") <=>
             \/ Holds(seen.before, seen.uid, seen.filename, "public")
             \/ /\ Holds(seen.before, seen.uid, seen.filename, "private")
                /\ \/ strip(seen.token) = session_token(seen.uid)
                   \/ ValidShareToken(seen.filename, seen.uid, seen.token)

\* a private file is refused to the other user's session token while the
\* share token made for it is still good
C23_Witness ==
    /\ seen.op = "read_file" /\ seen.status = "none"
    /\ Holds(library, seen.uid, seen.filename, "private")
    /\ \E u \in Owners : u # seen.uid /\ seen.token = session_token(u)
    /\ share.status = "ok" /\ share.uid = seen.uid /\ share.filename = seen.filename
    /\ ValidShareToken(seen.filename, seen.uid, share.token)

\* C24: only the owner's session token can change a library: create_file,
\* modify_file and remove_file called with any other token (another user's
\* session token, a share token of one of the owner's files, a text that is
\* no token) leave every name, content and visibility as they were and
\* report no success.
C24_OnlyOwnerTokenWrites ==
    (/\ seen.op \in {"create_file", "modify_file", "remove_file"}
     /\ strip(seen.token) # session_token(seen.uid))
    => (library = seen.before /\ seen.http # "200")

\* the step is the answer to delete_user(uid)
DeleteUserStep(uid) ==
    report'.n # report.n /\ report'.op = "delete_user" /\ report'.uid = uid

\* C25: delete_user on a non-admin active user with an empty cart
\* deactivates the user (active = false, row kept) when the user has an
\* order and removes the row when it has none; it refuses an admin
\* (FORBIDDEN), a user with a non-empty cart (NOT_EMPTY_CART) and an absent
\* or already inactive user (NOT_FOUND) without changing the store.
C25_DeleteUserOutcomes ==
    [][\A uid \in UidArgs : DeleteUserStep(uid) =>
         LET there == uid \in DOMAIN Usuario
             admin == there /\ Usuario[uid].admin
             active == there /\ Usuario[uid].active
             lines == LinesOfUser(Carrito, Carrito_Pelicula, uid)
             orders == {i \in 1..Len(Pedido) : Pedido[i].user_id = uid}
             status == report'.status
         IN  IF admin THEN status = "FORBIDDEN" /\ UNCHANGED tables
             ELSE IF ~active THEN status = "NOT_FOUND" /\ UNCHANGED tables
             ELSE IF lines # {} THEN status = "NOT_EMPTY_CART" /\ UNCHANGED tables
             ELSE IF orders # {}
                  THEN /\ status = "OK"
                       /\ Usuario' = [Usuario EXCEPT ![uid].active = FALSE]
                       /\ UNCHANGED <<Carrito, Carrito_Pelicula, Pedido, Pedido_Pelicula>>
             ELSE /\ status = "OK"
                  /\ Usuario' = UsuarioDelete(Usuario, {uid})
                  /\ UNCHANGED <<Carrito_Pelicula, Pedido, Pedido_Pelicula>>
      ]_vars

SameLine(op) ==
    /\ \A r \in Reqs : DoneReq(r, op) /\ Resolved(r)
    /\ req[1].user_id = req[2].user_id /\ req[1].movieid = req[2].movieid

\* C27: when two removeItem calls of one user for one item interleave between
\* the lookup and the delete or decrement, the line's quantity never becomes
\* 0 or negative, and the two together never remove more than the quantity
\* that was present.
C27_ConcurrentRemoveBounded ==
    /\ (\A r \in Reqs : req[r].op \in {"none", "delete"})
          => \A l \in Carrito_Pelicula : l.quantity >= 1
    /\ (SameLine("delete") /\ \A r \in Reqs : req[r].status = "OK")
          => req[1].quantity + req[2].quantity
                <= MaxOf({req[1].line_before, req[2].line_before})

\* C28: when two addItem calls of one user for one item, with quantities a
\* and b, run concurrently and both return OK, the cart holds a single line
\* for the item with the quantity it had before plus a + b, under every
\* interleaving of their statements.
C28_ConcurrentAddSums ==
    (SameLine("add") /\ \A r \in Reqs : req[r].status = "OK")
    => LET L == LinesOf(Carrito, Carrito_Pelicula, req[1].user_id, req[1].movieid)
       IN /\ Cardinality(L) = 1
          /\ \A l \in L :
                l.quantity = MinOf({req[1].line_before, req[2].line_before})
                               + req[1].quantity + req[2].quantity

\* the order ids of a Pedido table
OrderIdsOf(P) == {P[i].order_id : i \in 1..Len(P)}

OrdersIn(P, u) == {i \in 1..Len(P) : P[i].user_id = u}

\* C30: a deactivated user can neither log in nor buy: for a user whose
\* active flag is false, login_user with the user's name and password fails,
\* and no add-to-cart or checkout made with the user's token changes the
\* user's cart, creates an order of the user or returns OK.
C30_InactiveUserLockedOut ==
    [][\A u \in DOMAIN Usuario : ~Usuario[u].active =>
         /\ (/\ report'.n # report.n /\ report'.op = "login_user"
             /\ report'.uid = Usuario[u].name
             /\ report'.password = Usuario[u].password)
               => report'.status # "OK"
         /\ LinesOfUser(Carrito', Carrito_Pelicula', u)
               = LinesOfUser(Carrito, Carrito_Pelicula, u)
         /\ OrdersIn(Pedido', u) = OrdersIn(Pedido, u)
         /\ \A r \in Reqs :
               (/\ req'[r].pc = "done" /\ req[r].pc # "done"
                /\ req'[r].token = Usuario[u].token)
               => req'[r].status # "OK"
      ]_vars

====
